---- MODULE Spec2Model ----
(***************************************************************************)
(* Agentic-AI-Pipeline: the coding pipeline's iterative loop               *)
(* (Agentic-Coding-Pipeline/pipeline.py), the reasoning graph with its     *)
(* streaming front end (src/agentic_ai/layers/reasoning.py, graph.py,      *)
(* app.py), the human-in-the-loop session controller                       *)
(* (Agentic-Coding-Pipeline/ui/session.py, server.py), the token bucket of *)
(* api_chat (infra/rate_limit.py), the stream handlers (services.py of the *)
(* coding and RAG pipelines), the trace store (memory/trace_store.py), the  *)
(* run tracer with its current-tracer context (infra/trace.py), the replay *)
(* of tool calls and of LLM outputs (infra/replay.py, llm/replay_llm.py)   *)
(* and the RAG orchestrator (Agentic-RAG-Pipeline/graph/orchestrator.py).  *)
(***************************************************************************)
EXTENDS Integers, Sequences, FiniteSets, TLC

VARIABLES
    \* ---- AgenticCodingPipeline ----
    cfg,        \* the dataclass fields: number of coders/formatters/testers/reviewers, max_iterations
    state,      \* the shared state dict of run(), a function from the keys present to their values
    p_pc,       \* position of run(): "loop", "coders", "formatters", "testers", "reviewers", "returned", "raised"
    p_idx,      \* index (1-based) of the next agent of the current stage
    p_iter,     \* number of iterations of the outer for loop entered so far
    last,       \* history: the most recent agent invocation and what the agent left behind
    passT,      \* history: testers of the current iteration that left tests_passed true
    passR,      \* history: reviewers of the current iteration that left qa_passed true
    failIters,  \* history: iterations in which a tester or a reviewer failed
    coderCalls, \* history: how often each coder was invoked
    \* ---- reasoning graph, run_chat, api_chat ----
    node,       \* the graph node to execute next ("plan" .. "finalize", "END")
    prev,       \* the node executed last ("START" before the first)
    messages,   \* state["messages"]
    next_action,\* state["next_action"]
    done,       \* state["done"]
    visits,     \* number of node executions of this run
    acts,       \* number of tool-calling act executions of this run
    events,     \* the server-sent events api_chat has yielded
    run_chat_id, \* run_chat's chat_id argument ("None" while no run was started)
    tracing,    \* settings.ENABLE_TRACING
    journals,   \* the TraceStore journals: journal id -> the node events recorded in it
    run_trace,  \* the RunTracer's file data/traces/<chat_id>/<run_id>.jsonl: the events written
    rp_pc,      \* the replay of the run: "idle", "built" (ReplayEngine constructed), "raised", "started"
    rp_user_message, \* ReplayEngine.original_user_message
    rp_messages,\* state["messages"] of the replayed graph run
    rp_chunks,  \* what replay_chat has yielded
    \* ---- CodingPipelineSession and its HTTP endpoints (ui/session.py, ui/server.py) ----
    session,    \* the session object: base_task, task (state["task"]), state, instructions,
                \* messages, timeline (stage id -> status), stage_pointer
    s_req,      \* history: the last request the server handled
    s_resp,     \* history: the HTTP status of its response
    s_nreq,     \* history: number of requests handled
    s_calls,    \* history: number of agent invocations so far
    s_given,    \* history: the comments given so far, in the order given
    s_coderTask,\* history: the task the coders last ran on
    s_tested,   \* history: the proposed_code the testers last passed ("None": no passing run yet)
    \* ---- token bucket of api_chat (infra/rate_limit.py) ----
    buckets,    \* _BUCKETS: chat id -> (last_refill, tokens), for the ids used so far
    now,        \* time.time(), in whole seconds
    r_req,      \* history: the chat id of the last request
    r_resp,     \* history: the HTTP status of its response
    r_grants,   \* history: per chat id, the times of the grants of the last 10 seconds
    r_emptied,  \* history: per chat id, when a grant took the last token (-1: not empty)
    \* ---- stream handlers: run_pipeline_stream, run_rag_stream, api_chat's gen ----
    h_kind,     \* the handler invoked: "coding", "rag", "chat" ("none" before)
    h_pc,       \* its position: "idle", "engine" (about to run the engine), "closed", "raised", "rejected" (HTTP 400)
    h_text,     \* the task or message of the request ("None": the payload has none)
    h_events,   \* the events it has yielded
    h_chunks,   \* chat: the chunks run_chat has yielded
    \* ---- TraceStore (memory/trace_store.py) ----
    files,      \* the files under base_dir: path -> the lines written
    t_recorded, \* history: per chat id, the events whose record operation returned
    t_n,        \* history: number of record operations so far (the clock of the timestamps)
    t_last,     \* history: how the last record operation ended ("none", "returned", "raised")
    \* ---- trace_run and the module-level current tracer (infra/trace.py) ----
    current_tracer, \* _current_tracer: "None" or the tracer (named by its run) set last
    c_pc,       \* per run, the position of its trace_run context: "out", "open", "untraced"
    c_old,      \* per run, old_tracer: what get_current_tracer() returned when the context was entered
    c_seen,     \* history: per run, what get_current_tracer() last returned inside the run ("none": not called)
    \* ---- RunTracer journals and their replay by ReplaySession / MockTool (infra/trace.py, infra/replay.py) ----
    rt_file,    \* the run's .jsonl file: the events written, in order
    rt_calls,   \* history: per tool call, its position ("none", "requested", "responded"), tool, args and outcome
    rs_pc,      \* "recording", then "replaying" once ReplaySession was built from the file
    tool_responses, \* ReplaySession.tool_responses: args_hash -> the response paired with it
    mt_last,    \* history: the last MockTool._run call and how it ended
    \* ---- _traced_llm_invoke recording LLM exchanges, ReplayLLM replaying them (layers/reasoning.py, llm/replay_llm.py) ----
    l_events,   \* the llm_prompt / llm_output events of the journal, as get_trace returns them
    l_exch,     \* history: per exchange, "none", "prompted", "answered" or "failed" (the LLM raised)
    l_spans,    \* whether current_span_id() yields a span id (a valid OpenTelemetry span) or None
    l_pc,       \* "recording", then "replaying" once the ReplayLLM was built
    l_mode,     \* the ReplayLLM's strict_mode and whether it has a fallback_llm
    recorded_outputs, \* ReplayLLM._recorded_outputs: the (prompt, output) pairs
    output_index,     \* ReplayLLM._output_index
    l_last,     \* history: how the last _generate call ended
    l_pass,     \* history: the recorded outputs returned since the last reset (or construction)
    l_first,    \* history: the recorded outputs returned before the first reset
    l_again,    \* history: whether reset() has been called
    \* ---- Orchestrator.answer of the RAG pipeline (Agentic-RAG-Pipeline/graph/orchestrator.py) ----
    o_web,      \* whether the orchestrator was built with a web tool (self.web)
    o_pc,       \* position of answer(): "idle", "plan", "queries", "writer", "critic", "followups", "guard", "returned"
    o_todo,     \* subtasks of the plan still to execute
    o_queries,  \* queries of the current subtask (or follow-up queries) still to run
    o_planned,  \* the k of the retrieval plan as the model wrote it (data.get("k", 6))
    o_k,        \* rp["k"] of the current subtask
    o_local,    \* local: the evidence of the current subtask
    all_evidence, \* all_evidence
    o_draft,    \* draft["status"] of the last writer pass ("None" before the first)
    o_first,    \* history: draft["status"] of the first writer pass ("None" before it)
    o_writers,  \* history: number of writer passes
    o_critics,  \* history: number of critic passes
    o_retrieved,\* history: number of follow-up queries retrieved
    o_searches, \* history: the k of the last vector search and of the last web search
    o_dup,      \* history: whether a retrieval returned evidence of an identity already collected
    citations,  \* the citations of the returned dict
    \* ---- _dedupe_evidence applied to a list (Agentic-RAG-Pipeline/graph/orchestrator.py) ----
    d_ev,       \* ev: the list passed to _dedupe_evidence
    d_max_len,  \* max_len
    d_pc,       \* "idle" (no list yet), "input", "once" (applied), "twice" (applied to its own output)
    d_out,      \* the list returned
    d_again     \* the list returned for d_out

pipeVars == <<cfg, state, p_pc, p_idx, p_iter, last, passT, passR, failIters, coderCalls>>
graphVars == <<node, prev, messages, next_action, done, visits, acts, events,
               run_chat_id, tracing, journals, run_trace, rp_pc, rp_user_message, rp_messages, rp_chunks>>
sessVars == <<session, s_req, s_resp, s_nreq, s_calls, s_given, s_coderTask, s_tested>>
rateVars == <<buckets, now, r_req, r_resp, r_grants, r_emptied>>
streamVars == <<h_kind, h_pc, h_text, h_events, h_chunks>>
traceVars == <<files, t_recorded, t_n, t_last>>
ctxVars == <<current_tracer, c_pc, c_old, c_seen>>
runTraceVars == <<rt_file, rt_calls, rs_pc, tool_responses, mt_last>>
llmVars == <<l_events, l_exch, l_spans, l_pc, l_mode, recorded_outputs, output_index, l_last, l_pass, l_first, l_again>>
ragVars == <<o_web, o_pc, o_todo, o_queries, o_planned, o_k, o_local, all_evidence, o_draft, o_first, o_writers, o_critics, o_retrieved, o_searches, o_dup, citations>>
dedupeVars == <<d_ev, d_max_len, d_pc, d_out, d_again>>
vars == <<pipeVars, graphVars, sessVars, rateVars, streamVars, traceVars, ctxVars, runTraceVars, llmVars, ragVars, dedupeVars>>

\* what the steps of each subsystem leave alone
notPipe == <<graphVars, sessVars, rateVars, streamVars, traceVars, ctxVars, runTraceVars, llmVars, ragVars, dedupeVars>>
notGraph == <<pipeVars, sessVars, rateVars, streamVars, traceVars, ctxVars, runTraceVars, llmVars, ragVars, dedupeVars>>
notSess == <<pipeVars, graphVars, rateVars, streamVars, traceVars, ctxVars, runTraceVars, llmVars, ragVars, dedupeVars>>
notRate == <<pipeVars, graphVars, sessVars, streamVars, traceVars, ctxVars, runTraceVars, llmVars, ragVars, dedupeVars>>
notStream == <<pipeVars, graphVars, sessVars, rateVars, traceVars, ctxVars, runTraceVars, llmVars, ragVars, dedupeVars>>
notTrace == <<pipeVars, graphVars, sessVars, rateVars, streamVars, ctxVars, runTraceVars, llmVars, ragVars, dedupeVars>>
notCtx == <<pipeVars, graphVars, sessVars, rateVars, streamVars, traceVars, runTraceVars, llmVars, ragVars, dedupeVars>>
notRunTrace == <<pipeVars, graphVars, sessVars, rateVars, streamVars, traceVars, ctxVars, llmVars, ragVars, dedupeVars>>
notLlm == <<pipeVars, graphVars, sessVars, rateVars, streamVars, traceVars, ctxVars, runTraceVars, ragVars, dedupeVars>>
notRag == <<pipeVars, graphVars, sessVars, rateVars, streamVars, traceVars, ctxVars, runTraceVars, llmVars, dedupeVars>>
notDedupe == <<pipeVars, graphVars, sessVars, rateVars, streamVars, traceVars, ctxVars, runTraceVars, llmVars, ragVars>>

\* ---------------------------------------------------------------- bounds
MaxAgents == 2
MaxIter == 2

\* ------------------------------------------------- subsystems not in use
\* no session has been created
NoSession ==
    [base_task |-> "", task |-> <<>>, state |-> <<>>, instructions |-> <<>>,
     messages |-> <<>>, timeline |-> <<>>, stage_pointer |-> "none"]

NoRequest == [op |-> "none", action |-> "none", comment |-> "None"]

SessIdle ==
    /\ session = NoSession
    /\ s_req = NoRequest
    /\ s_resp = 0
    /\ s_nreq = 0
    /\ s_calls = 0
    /\ s_given = <<>>
    /\ s_coderTask = <<>>
    /\ s_tested = "None"

\* the chat ids of the clients
ChatIds == {"chat-a", "chat-b"}

\* the journals the TraceStore keeps: one per chat id the nodes name, "unknown"
\* being the default of state.get("chat_id", "unknown")
JournalIds == ChatIds \cup {"unknown"}

\* the module has just been imported: no bucket yet
RateIdle ==
    /\ buckets = <<>>
    /\ now = 0
    /\ r_req = "none"
    /\ r_resp = 0
    /\ r_grants = [c \in ChatIds |-> <<>>]
    /\ r_emptied = [c \in ChatIds |-> -1]

\* no stream handler has been invoked
StreamIdle ==
    /\ h_kind = "none"
    /\ h_pc = "idle"
    /\ h_text = "None"
    /\ h_events = <<>>
    /\ h_chunks = 0

\* the chat ids a TraceStore is called with
TraceChatIds == {"chat-a", "./chat-a", "chat-b"}

\* TraceStore(base_dir) has just been built: the directory holds no trace file
TraceIdle ==
    /\ files = <<>>
    /\ t_recorded = [c \in TraceChatIds |-> <<>>]
    /\ t_n = 0
    /\ t_last = "none"

\* the runs hosted side by side (evals/runner.py: one run_task per golden task)
Runs == {"runA", "runB", "runC"}

\* infra/trace.py has just been imported: _current_tracer is None, no context is open
CtxIdle ==
    /\ current_tracer = "None"
    /\ c_pc = [r \in Runs |-> "out"]
    /\ c_old = [r \in Runs |-> "None"]
    /\ c_seen = [r \in Runs |-> "none"]

MaxCalls == 2
MaxLlmCalls == 1

NoToolCall == [pc |-> "none", tool |-> "None", args |-> <<>>, result |-> "None", error |-> "None"]

NoMockCall == [tool |-> "None", args |-> <<>>, outcome |-> "none", value |-> "None"]

\* a RunTracer has been entered for a run, nothing logged yet and no replay built
RunTraceIdle ==
    /\ rt_file = <<>>
    /\ rt_calls = [k \in 1..MaxCalls |-> NoToolCall]
    /\ rs_pc = "recording"
    /\ tool_responses = <<>>
    /\ mt_last = NoMockCall

MaxExchanges == 3

NoGenerate == [kind |-> "none", text |-> "None"]

\* nothing recorded, no ReplayLLM built
LlmIdle ==
    /\ l_events = <<>>
    /\ l_exch = [i \in 1..MaxExchanges |-> "none"]
    /\ l_spans = FALSE
    /\ l_pc = "recording"
    /\ l_mode = [strict_mode |-> FALSE, fallback_llm |-> FALSE]
    /\ recorded_outputs = <<>>
    /\ output_index = 0
    /\ l_last = NoGenerate
    /\ l_pass = <<>>
    /\ l_first = <<>>
    /\ l_again = FALSE

MaxSubtasks == 2
MaxQueries == 2

\* an Orchestrator has been built, answer has not been called
RagIdle ==
    /\ o_web = FALSE
    /\ o_pc = "idle"
    /\ o_todo = 0
    /\ o_queries = 0
    /\ o_planned = 0
    /\ o_k = 0
    /\ o_local = <<>>
    /\ all_evidence = <<>>
    /\ o_draft = "None"
    /\ o_first = "None"
    /\ o_writers = 0
    /\ o_critics = 0
    /\ o_retrieved = 0
    /\ o_searches = [vector |-> 0, web |-> 0]
    /\ o_dup = FALSE
    /\ citations = <<>>

MaxEvidence == 3

\* no list has been passed to _dedupe_evidence
DedupeIdle ==
    /\ d_ev = <<>>
    /\ d_max_len = 0
    /\ d_pc = "idle"
    /\ d_out = <<>>
    /\ d_again = <<>>

\* ------------------------------------------------------ Python dict helpers
\* dict.get(k, default): None when the key is absent
Get(s, k) == IF k \in DOMAIN s THEN s[k] ELSE "None"

\* s[k] = v
Put(s, k, v) == (k :> v) @@ s

\* dict.setdefault(k, v)
SetDefault(s, k, v) == IF k \in DOMAIN s THEN s ELSE Put(s, k, v)

\* Python truthiness of the values the state holds (str, bool, None)
Truthy(v) == v \notin {"", "False", "None"}

\* ------------------------------------------------------------ agent results
\* what an LLM coder may return as content
CoderOutputs == {"", "def add"}

\* what ruff may leave in the file for a given input
FormatterOutputs(code) == {code, "def add (fmt)"}

\* pytest's (returncode == 0, stdout + stderr)
TesterOutputs == {"True", "False"} \X {"1 passed", "AssertionError"}

\* the reviewing LLM's answer
ReviewOutputs == {"PASS", "the tests pass but the style is poor", "bug: off by one"}

\* "pass" in review.lower()
ContainsPass(review) == review \in {"PASS", "the tests pass but the style is poor"}

PyBool(b) == IF b THEN "True" ELSE "False"

NoCall == [kind |-> "none", idx |-> 0, iter |-> 0, failed |-> FALSE, raised |-> FALSE, out |-> "None"]

Call(kind, idx, failed, out) ==
    [kind |-> kind, idx |-> idx, iter |-> p_iter, failed |-> failed, raised |-> FALSE, out |-> out]

\* -------------------------------------------------- CodingAgent.run etc.
CoderRun(s, content) == Put(s, "proposed_code", content)

FormatterRun(s, text) ==
    IF ~Truthy(Get(s, "proposed_code")) THEN s ELSE Put(s, "proposed_code", text)

TesterRun(s, res) == Put(Put(s, "tests_passed", res[1]), "test_output", res[2])

QARun(s, review) == Put(Put(s, "qa_passed", PyBool(ContainsPass(review))), "qa_output", review)

\* ------------------------------------------------ AgenticCodingPipeline.run
\* (mutant) the check reads the wrong key
CoderDidNotReturnCodeMut(s) == ~Truthy(Get(s, "task"))

\* line 26: if not state.get("proposed_code")
CoderDidNotReturnCode(s) == ~Truthy(Get(s, "proposed_code"))

\* lines 27-29
FailNoCode(s) == Put(Put(s, "status", "failed"), "reason", "coder did not return code")

\* (mutant) the check reads the output instead of the flag
TestsFailedMut(s) == ~Truthy(Get(s, "test_output"))

\* line 37: if not state.get("tests_passed")
TestsFailed(s) == ~Truthy(Get(s, "tests_passed"))

\* line 39
TestFeedback(s) == Put(s, "feedback", Get(s, "test_output"))

\* line 47: if not state.get("qa_passed")
ReviewFailed(s) == ~Truthy(Get(s, "qa_passed"))

\* (mutant) the reviewers' feedback copied from the testers' block
ReviewFeedbackMut(s) == Put(s, "feedback", Get(s, "test_output"))

\* line 49
ReviewFeedback(s) == Put(s, "feedback", Get(s, "qa_output"))

\* lines 51-53: reviews_ok, so the run completes
Complete(s) == [pc |-> "returned", idx |-> 0, st |-> Put(s, "status", "completed")]

\* line 45: the reviewers' for loop, empty or not
ToReviewers(s) ==
    IF cfg.reviewers > 0 THEN [pc |-> "reviewers", idx |-> 1, st |-> s] ELSE Complete(s)

\* lines 34-42: the testers' for loop; with no tester tests_ok stays True
ToTesters(s) ==
    IF cfg.testers > 0 THEN [pc |-> "testers", idx |-> 1, st |-> s] ELSE ToReviewers(s)

\* line 31: the formatters' for loop
ToFormatters(s) ==
    IF cfg.formatters > 0 THEN [pc |-> "formatters", idx |-> 1, st |-> s] ELSE ToTesters(s)

\* line 24: the coders' for loop
ToCoders(s) ==
    IF cfg.coders > 0 THEN [pc |-> "coders", idx |-> 1, st |-> s] ELSE ToFormatters(s)

\* (mutant) the continue is lost: a failed stage falls through to the reviewers
ToLoopMut(s) == ToReviewers(s)

\* line 42 / line 50: back to the head of the outer loop
ToLoop(s) == [pc |-> "loop", idx |-> 0, st |-> s]

\* (mutant) the final setdefault is lost
ExhaustedMut(s) == s

\* line 55
Exhausted(s) == SetDefault(s, "status", "failed")

Goto(pos) ==
    /\ p_pc' = pos.pc
    /\ p_idx' = pos.idx
    /\ state' = pos.st

PipeInit ==
    /\ cfg \in [coders : 0..MaxAgents, formatters : 0..MaxAgents, testers : 0..MaxAgents,
                reviewers : 0..MaxAgents, max_iterations : 0..MaxIter]
    /\ state = ("task" :> "add two numbers")
    /\ p_pc = "loop"
    /\ p_idx = 0
    /\ p_iter = 0
    /\ last = NoCall
    /\ passT = 0
    /\ passR = 0
    /\ failIters = 0
    /\ coderCalls = [i \in 1..MaxAgents |-> 0]

\* line 23: for _ in range(self.max_iterations), and line 55-56 on exhaustion
LoopHead ==
    /\ p_pc = "loop"
    /\ IF p_iter < cfg.max_iterations
       THEN /\ p_iter' = p_iter + 1
            /\ Goto(ToCoders(state))
       ELSE /\ p_iter' = p_iter
            /\ Goto([pc |-> "returned", idx |-> 0, st |-> Exhausted(state)])
    /\ passT' = 0
    /\ passR' = 0
    /\ UNCHANGED <<cfg, last, failIters, coderCalls>>
    /\ UNCHANGED notPipe

\* lines 24-29: one coder, then the check of proposed_code
Coder ==
    /\ p_pc = "coders"
    /\ \E content \in CoderOutputs :
          LET s1 == CoderRun(state, content) IN
          /\ last' = Call("coder", p_idx, ~Truthy(content), content)
          /\ IF CoderDidNotReturnCode(s1)
             THEN Goto([pc |-> "returned", idx |-> 0, st |-> FailNoCode(s1)])
             ELSE IF p_idx < cfg.coders
                  THEN Goto([pc |-> "coders", idx |-> p_idx + 1, st |-> s1])
                  ELSE Goto(ToFormatters(s1))
    /\ coderCalls' = [coderCalls EXCEPT ![p_idx] = @ + 1]
    /\ UNCHANGED <<cfg, p_iter, passT, passR, failIters>>
    /\ UNCHANGED notPipe

\* lines 31-32: one formatter
Formatter ==
    /\ p_pc = "formatters"
    /\ \E text \in FormatterOutputs(Get(state, "proposed_code")) :
          LET s1 == FormatterRun(state, text) IN
          /\ last' = Call("formatter", p_idx, FALSE, Get(s1, "proposed_code"))
          /\ IF p_idx < cfg.formatters
             THEN Goto([pc |-> "formatters", idx |-> p_idx + 1, st |-> s1])
             ELSE Goto(ToTesters(s1))
    /\ UNCHANGED <<cfg, p_iter, passT, passR, failIters, coderCalls>>
    /\ UNCHANGED notPipe

\* lines 35-42: one tester, then the check of tests_passed
Tester ==
    /\ p_pc = "testers"
    /\ \E res \in TesterOutputs :
          LET s1 == TesterRun(state, res) IN
          /\ last' = Call("tester", p_idx, res[1] = "False", res[2])
          /\ passT' = IF res[1] = "True" THEN passT + 1 ELSE passT
          /\ failIters' = IF res[1] = "True" THEN failIters ELSE failIters + 1
          /\ IF TestsFailed(s1)
             THEN Goto(ToLoop(TestFeedback(s1)))
             ELSE IF p_idx < cfg.testers
                  THEN Goto([pc |-> "testers", idx |-> p_idx + 1, st |-> s1])
                  ELSE Goto(ToReviewers(s1))
    /\ UNCHANGED <<cfg, p_iter, passR, coderCalls>>
    /\ UNCHANGED notPipe

\* lines 45-53: one reviewer, then the check of qa_passed
Reviewer ==
    /\ p_pc = "reviewers"
    /\ \E review \in ReviewOutputs :
          LET s1 == QARun(state, review) IN
          /\ last' = Call("reviewer", p_idx, ~ContainsPass(review), review)
          /\ passR' = IF ContainsPass(review) THEN passR + 1 ELSE passR
          /\ failIters' = IF ContainsPass(review) THEN failIters ELSE failIters + 1
          /\ IF ReviewFailed(s1)
             THEN Goto(ToLoop(ReviewFeedback(s1)))
             ELSE IF p_idx < cfg.reviewers
                  THEN Goto([pc |-> "reviewers", idx |-> p_idx + 1, st |-> s1])
                  ELSE Goto(Complete(s1))
    /\ UNCHANGED <<cfg, p_iter, passT, coderCalls>>
    /\ UNCHANGED notPipe

\* an agent's run() raises (the LLM client, ruff or pytest missing, ...): run()
\* has no try/except, so the exception leaves run(). FormattingAgent.run returns
\* before it touches ruff when there is no code to format.
AgentRaises ==
    /\ p_pc \in {"coders", "formatters", "testers", "reviewers"}
    /\ p_pc = "formatters" => Truthy(Get(state, "proposed_code"))
    /\ last' = [Call(CASE p_pc = "coders" -> "coder" [] p_pc = "formatters" -> "formatter"
                       [] p_pc = "testers" -> "tester" [] OTHER -> "reviewer",
                     p_idx, FALSE, "exception") EXCEPT !.raised = TRUE]
    /\ p_pc' = "raised"
    /\ UNCHANGED <<cfg, state, p_idx, p_iter, passT, passR, failIters, coderCalls>>
    /\ UNCHANGED notPipe

GraphIdle ==
    /\ node = "END"
    /\ prev = "START"
    /\ messages = <<>>
    /\ next_action = ""
    /\ done = FALSE
    /\ visits = 0
    /\ acts = 0
    /\ events = <<>>
    /\ run_chat_id = "None"
    /\ tracing = FALSE
    /\ journals = [j \in JournalIds |-> <<>>]
    /\ run_trace = <<>>
    /\ rp_pc = "idle"
    /\ rp_user_message = "None"
    /\ rp_messages = <<>>
    /\ rp_chunks = <<>>

PipeNext ==
    \/ LoopHead
    \/ Coder
    \/ Formatter
    \/ Tester
    \/ Reviewer
    \/ AgentRaises

\* a pipeline run, the graph not running
InitPipeline == PipeInit /\ GraphIdle /\ SessIdle /\ RateIdle /\ StreamIdle /\ TraceIdle /\ CtxIdle /\ RunTraceIdle /\ LlmIdle /\ RagIdle /\ DedupeIdle

SpecPipeline == InitPipeline /\ [][PipeNext]_vars

\* ------------------------------------------------------- pipeline: claims
Status == Get(state, "status")

\* C1: whenever run returns a state with status 'completed', every configured
\* tester left tests_passed true and every configured reviewer left qa_passed
\* true in the last iteration it executed.
C1_CompletedImpliesAllPassed ==
    Status = "completed" =>
        /\ p_pc = "returned"
        /\ passT = cfg.testers
        /\ passR = cfg.reviewers

C1_Witness ==
    /\ Status = "completed"
    /\ p_iter >= 2
    /\ cfg.testers >= 2
    /\ cfg.reviewers >= 2

\* C2: for max_iterations = N >= 1, if in every iteration a tester or a reviewer
\* fails, run executes exactly N iterations, invokes each coder N times, and
\* returns status 'failed' with feedback equal to the output of the stage that
\* failed in the N-th iteration.
C2_ExhaustionFails ==
    (p_pc = "returned" /\ cfg.max_iterations >= 1 /\ failIters = cfg.max_iterations) =>
        /\ p_iter = cfg.max_iterations
        /\ \A i \in 1..cfg.coders : coderCalls[i] = cfg.max_iterations
        /\ Status = "failed"
        /\ last.kind \in {"tester", "reviewer"}
        /\ last.failed
        /\ last.iter = cfg.max_iterations
        /\ Get(state, "feedback") = last.out

C2_Witness ==
    /\ p_pc = "returned"
    /\ cfg.max_iterations >= 2
    /\ failIters = cfg.max_iterations
    /\ cfg.coders >= 2
    /\ last.kind = "reviewer"

StageFailed == last.kind \in {"tester", "reviewer"} /\ last.failed

\* C3: as soon as a tester leaves tests_passed false (a reviewer: qa_passed
\* false), feedback is that agent's output, no other agent is invoked in that
\* iteration, and the next agent invoked is the first coder of the next iteration.
C3_FirstFailureStopsIteration ==
    /\ [](StageFailed => Get(state, "feedback") = last.out)
    /\ [][(StageFailed /\ last' # last) =>
             /\ last'.iter = last.iter + 1
             /\ cfg.coders >= 1 => (last'.kind = "coder" /\ last'.idx = 1)]_vars

C3_Witness ==
    /\ last.kind = "coder"
    /\ last.idx = 1
    /\ last.iter = 2
    /\ cfg.testers >= 2
    /\ cfg.reviewers >= 1
    /\ Get(state, "tests_passed") = "False"
    /\ Get(state, "feedback") = "AssertionError"
    /\ "qa_passed" \notin DOMAIN state

NoCodeReason == Get(state, "reason") = "coder did not return code"

\* C4 (as claimed): every configured coder is invoked before proposed_code is
\* examined, so a run that returns 'coder did not return code' has run its last
\* coder.
C4_ExaminedAfterAllCoders ==
    NoCodeReason => (last.kind = "coder" /\ last.idx = cfg.coders)

\* C4 (amended): the coders are invoked in order and proposed_code is examined
\* after each of them; the run returns status 'failed' with reason 'coder did
\* not return code' exactly when a coder has just left proposed_code empty.
C4_ExaminedAfterEachCoder ==
    /\ [](NoCodeReason <=> (last.kind = "coder" /\ last.failed))
    /\ [](NoCodeReason => (p_pc = "returned" /\ Status = "failed"))
    /\ [][(last' # last /\ last'.kind = "coder") =>
             IF last.kind = "coder" /\ last.iter = last'.iter
             THEN last'.idx = last.idx + 1
             ELSE last'.idx = 1]_vars

C4_Witness ==
    /\ NoCodeReason
    /\ p_pc = "returned"
    /\ last.kind = "coder"
    /\ last.idx = 1
    /\ cfg.coders >= 2
    /\ p_iter = 2

\* C5: run never propagates an exception raised by a formatter, a tester or a
\* reviewer.
C5_NoStageExceptionLeavesRun ==
    p_pc = "raised" => last.kind \notin {"formatter", "tester", "reviewer"}

\* C6 (as claimed): with max_iterations = 0 run returns without invoking any
\* agent, with status 'failed' and reason 'no iterations'.
C6_ZeroIterationsReason ==
    (p_pc = "returned" /\ cfg.max_iterations = 0) =>
        /\ last = NoCall
        /\ Status = "failed"
        /\ Get(state, "reason") = "no iterations"

\* C6 (amended): with max_iterations = 0 run returns without invoking any
\* agent, with status 'failed' and no reason: the state holds the task and the
\* status only.
C6_ZeroIterationsFailed ==
    (p_pc = "returned" /\ cfg.max_iterations = 0) =>
        /\ last = NoCall
        /\ Status = "failed"
        /\ DOMAIN state = {"task", "status"}

C6_Witness ==
    /\ p_pc = "returned"
    /\ cfg.max_iterations = 0
    /\ cfg.coders >= 1
    /\ cfg.testers >= 1

\* ============================================================ reasoning graph
MaxVisits == 17
MaxActs == 2
MaxToolCalls == 1

\* the user's message (api_chat has stripped it and found it non-empty)
UserTexts == {"What is 12 x 7?", "Summarise the KB"}

\* the planning LLM's answer
PlanOutputs == {"1. use calculator"}

\* the deciding LLM's raw answer
DecideOutputs == {"search", "fetch", "kb_search", "calculate", "write_file", "draft_email",
                  "finalize", " Calculate\n", "FINALIZE", "I would search first"}

\* str.strip().lower() on the answers above
StripLower(raw) ==
    CASE raw = " Calculate\n" -> "calculate"
      [] raw = "FINALIZE" -> "finalize"
      [] raw = "NEXT" -> "next"
      [] raw = " Finalize" -> "finalize"
      [] OTHER -> raw

\* the reflecting LLM's raw answer
ReflectOutputs == {"BRIEFING\n- 84", "  BRIEFING: done\n", "NEXT:calculate", "NEXT: Finalize",
                   "NEXT", "Here is the BRIEFING"}

\* str.strip() on the answers above
Strip(raw) == IF raw = "  BRIEFING: done\n" THEN "BRIEFING: done" ELSE raw

\* txt.startswith("BRIEFING")
StartsWithBriefing(txt) == txt \in {"BRIEFING\n- 84", "BRIEFING: done"}

\* txt.split(":", 1)[-1]
AfterColon(txt) ==
    CASE txt = "NEXT:calculate" -> "calculate"
      [] txt = "NEXT: Finalize" -> " Finalize"
      [] txt = "BRIEFING: done" -> " done"
      [] OTHER -> txt

\* the content of the tool-calling LLM's answer
ActContents == {"", "Calling the tool."}

\* what a tool returns
ToolResults == {"84"}

HumanMessage(c) == [type |-> "human", content |-> c, tool_calls |-> 0]
AIMessage(c, n) == [type |-> "ai", content |-> c, tool_calls |-> n]
ToolMessage(c) == [type |-> "tool", content |-> c, tool_calls |-> 0]

\* act_node's mapping from next_action to a tool name (mapping.get)
ToolName(action) ==
    CASE action = "search" -> "web_search"
      [] action = "fetch" -> "web_fetch"
      [] action = "kb_search" -> "kb_search"
      [] action = "calculate" -> "calculator"
      [] action = "write_file" -> "file_write"
      [] action = "draft_email" -> "emailer"
      [] OTHER -> "None"

\* (mutant) whatever is not finalize goes to act
RouteUnknownToActMut(nxt) == IF nxt = "finalize" THEN "finalize" ELSE "act"

\* (mutant) the finalize case is lost
RouteFromDecideMut(nxt) ==
    IF nxt \in {"search", "fetch", "kb_search", "calculate", "write_file", "draft_email"}
    THEN "act"
    ELSE "reflect"

\* build_graph.route_from_decide
RouteFromDecide(nxt) ==
    IF nxt \in {"search", "fetch", "kb_search", "calculate", "write_file", "draft_email"}
    THEN "act"
    ELSE IF nxt = "finalize" THEN "finalize" ELSE "reflect"

\* (mutant) the done flag is not consulted
RouteFromReflectMut(d) == "decide"

\* build_graph.route_from_reflect
RouteFromReflect(d) == IF d THEN "finalize" ELSE "decide"

\* run_chat's loop body on the state the graph streams after a node, and api_chat's
\* gen wrapping each chunk as a token event
StreamValues(evs, msgs) ==
    IF Len(msgs) > 0 /\ msgs[Len(msgs)].type = "ai"
    THEN Append(evs, [event |-> "token", data |-> msgs[Len(msgs)].content])
    ELSE evs

\* the keys of the state dict run_chat hands to the graph (graph.py lines 18-19);
\* the nodes return {**state, ...} with these keys only
StateKeys == {"messages", "plan", "next_action", "citations", "done"}

\* chat_id = state.get("chat_id", "unknown"), the first statement of every node
\* and of TracedToolNode.__call__
NodeChatId == IF "chat_id" \in StateKeys THEN run_chat_id ELSE "unknown"

\* trace_store.record_node_enter / record_node_exit of a node, as far as the
\* journal they go to and their order matter
NodeEvents(name) ==
    <<[event_type |-> "node_enter", node |-> name],
      [event_type |-> "node_exit", node |-> name]>>

\* RunTracer._emit_event: the event as written to the run's file
RunEvent(event_type, node_name, data) ==
    [event_type |-> event_type, node_name |-> node_name, data |-> data]

\* RunTracer.__enter__
RunStart(c) == RunEvent("run_start", "root", [chat_id |-> c, run_id |-> "run1"])

\* RunTracer.__exit__
RunEnd == RunEvent("run_end", "root", [error |-> "None"])

\* RunTracer.log_state_transition: the caller's data goes under "transition_data"
log_state_transition(from_state, to_state, data) ==
    RunEvent("state_transition", "graph",
             [from_state |-> from_state, to_state |-> to_state, transition_data |-> data])

\* run_chat's last_ai after the loop: the content of the last chunk yielded
LastAi(evs) == IF evs = <<>> THEN "None" ELSE evs[Len(evs)].data

\* run_chat lines 15-22: trace_run (a tracer only when tracing is enabled), the
\* initial state and the first state transition; the graph streams the initial
\* state first
GraphInit ==
    /\ \E u \in UserTexts : messages = <<HumanMessage(u)>>
    /\ run_chat_id \in ChatIds
    /\ tracing \in BOOLEAN
    /\ journals = [j \in JournalIds |-> <<>>]
    /\ run_trace = IF tracing
                   THEN <<RunStart(run_chat_id),
                          log_state_transition("init", "start", [user_message |-> messages[1].content])>>
                   ELSE <<>>
    /\ rp_pc = "idle"
    /\ rp_user_message = "None"
    /\ rp_messages = <<>>
    /\ rp_chunks = <<>>
    /\ next_action = ""
    /\ done = FALSE
    /\ node = "plan"
    /\ prev = "START"
    /\ visits = 0
    /\ acts = 0
    /\ events = StreamValues(<<>>, messages)

\* what every node execution does to the run: one more visit, one more streamed state
Visit(name, nextNode, msgs) ==
    /\ node = name
    /\ visits < MaxVisits
    /\ visits' = visits + 1
    /\ prev' = name
    /\ node' = nextNode
    /\ messages' = msgs
    /\ events' = StreamValues(events, msgs)
    /\ journals' = [journals EXCEPT ![NodeChatId] = @ \o NodeEvents(name)]
    /\ UNCHANGED <<run_chat_id, tracing, run_trace, rp_pc, rp_user_message, rp_messages, rp_chunks>>
    /\ UNCHANGED notGraph

\* planner_node, then the edge plan -> decide
Plan ==
    \E plan \in PlanOutputs :
        /\ Visit("plan", "decide", Append(messages, AIMessage("Plan:\n" \o plan, 0)))
        /\ next_action' = "decide"
        /\ UNCHANGED <<done, acts>>

\* decide_node, then route_from_decide
Decide ==
    \E raw \in DecideOutputs :
        /\ next_action' = StripLower(raw)
        /\ Visit("decide", RouteFromDecide(next_action'), messages)
        /\ UNCHANGED <<done, acts>>

\* act_node, then the edge act -> tools
Act ==
    /\ IF ToolName(next_action) = "None"
       THEN /\ Visit("act", "tools", Append(messages, AIMessage("Reflecting on gathered info...", 0)))
            /\ acts' = acts
       ELSE /\ acts < MaxActs
            /\ acts' = acts + 1
            /\ \E c \in ActContents, n \in 0..MaxToolCalls :
                  Visit("act", "tools", Append(messages, AIMessage(c, n)))
    /\ UNCHANGED <<next_action, done>>

RECURSIVE ToolMessages(_)
\* ToolNode: one tool message per tool call of the last message; the wrapper
\* reads them as result_state["messages"][len(state["messages"]):], appended
\* after the messages the state held
ToolMessages(n) == IF n = 0 THEN {<<>>} ELSE
    {Append(ms, ToolMessage(r)) : ms \in ToolMessages(n - 1), r \in ToolResults}

\* TracedToolNode.__call__, then the edge tools -> reflect
Tools ==
    /\ \E ms \in ToolMessages(IF Len(messages) > 0 THEN messages[Len(messages)].tool_calls ELSE 0) :
          Visit("tools", "reflect", messages \o ms)
    /\ UNCHANGED <<next_action, done, acts>>

\* reflect_node, then route_from_reflect
Reflect ==
    \E raw \in ReflectOutputs :
        LET txt == Strip(raw) IN
        IF StartsWithBriefing(txt)
        THEN /\ done' = TRUE
             /\ Visit("reflect", RouteFromReflect(done'), Append(messages, AIMessage(txt, 0)))
             /\ UNCHANGED <<next_action, acts>>
        ELSE /\ next_action' = StripLower(Strip(AfterColon(txt)))
             /\ Visit("reflect", RouteFromReflect(done), messages)
             /\ UNCHANGED <<done, acts>>

\* finalize_node; it has no outgoing edge, so the graph ends
Finalize ==
    /\ done' = TRUE
    /\ Visit("finalize", "END", messages)
    /\ UNCHANGED <<next_action, acts>>

\* run_chat after the loop (lines 36-37: the closing state transition, then the
\* tracer's __exit__), and api_chat.gen once run_chat is exhausted: the done event
StreamDone ==
    /\ node = "END"
    /\ run_trace' = IF tracing
                    THEN run_trace \o
                         <<log_state_transition("complete", "end", [final_response |-> LastAi(events)]),
                           RunEnd>>
                    ELSE run_trace
    /\ events' = Append(events, [event |-> "done", data |-> "chat_id"])
    /\ node' = "CLOSED"
    /\ UNCHANGED <<prev, messages, next_action, done, visits, acts>>
    /\ UNCHANGED <<run_chat_id, tracing, journals, rp_pc, rp_user_message, rp_messages, rp_chunks>>
    /\ UNCHANGED notGraph

RECURSIVE ExtractUserMessage(_)
\* ReplayEngine.__init__ lines 112-118: the loop over the events stops at the first
\* state_transition event whose data has the key "user_message"
ExtractUserMessage(evs) ==
    IF evs = <<>> THEN "None"
    ELSE IF Head(evs).event_type = "state_transition" /\ "user_message" \in DOMAIN Head(evs).data
         THEN Head(evs).data["user_message"]
         ELSE ExtractUserMessage(Tail(evs))

\* ReplayEngine(trace_path) on the file the run has written
ReplayEngineInit ==
    /\ node = "CLOSED"
    /\ run_trace # <<>>
    /\ rp_pc = "idle"
    /\ rp_user_message' = ExtractUserMessage(run_trace)
    /\ rp_pc' = "built"
    /\ UNCHANGED <<node, prev, messages, next_action, done, visits, acts, events>>
    /\ UNCHANGED <<run_chat_id, tracing, journals, run_trace, rp_messages, rp_chunks>>
    /\ UNCHANGED notGraph

\* ReplayEngine.replay_chat up to the initial state of the mock graph: a
\* ValueError when no user message was extracted
replay_chat ==
    /\ rp_pc = "built"
    /\ IF rp_user_message \in {"None", ""}
       THEN /\ rp_pc' = "raised"
            /\ rp_messages' = rp_messages
       ELSE /\ rp_pc' = "started"
            /\ rp_messages' = <<HumanMessage(rp_user_message)>>
    /\ UNCHANGED <<node, prev, messages, next_action, done, visits, acts, events>>
    /\ UNCHANGED <<run_chat_id, tracing, journals, run_trace, rp_user_message, rp_chunks>>
    /\ UNCHANGED notGraph

PipeIdle ==
    /\ cfg = [coders |-> 0, formatters |-> 0, testers |-> 0, reviewers |-> 0, max_iterations |-> 0]
    /\ state = <<>>
    /\ p_pc = "idle"
    /\ p_idx = 0
    /\ p_iter = 0
    /\ last = NoCall
    /\ passT = 0
    /\ passR = 0
    /\ failIters = 0
    /\ coderCalls = [i \in 1..MaxAgents |-> 0]

GraphNext ==
    \/ Plan
    \/ Decide
    \/ Act
    \/ Tools
    \/ Reflect
    \/ Finalize
    \/ StreamDone
    \/ ReplayEngineInit
    \/ replay_chat

\* a chat run, the coding pipeline not running
InitGraph == GraphInit /\ PipeIdle /\ SessIdle /\ RateIdle /\ StreamIdle /\ TraceIdle /\ CtxIdle /\ RunTraceIdle /\ LlmIdle /\ RagIdle /\ DedupeIdle

SpecGraph == InitGraph /\ [][GraphNext]_vars

\* ---------------------------------------------------------- graph: claims
ToolActions == {"search", "fetch", "kb_search", "calculate", "write_file", "draft_email"}

\* a step from node a to node b, taken with next_action nxt and done d as a left them
AllowedStep(a, b, nxt, d) ==
    \/ a = "START" /\ b = "plan"
    \/ a = "plan" /\ b = "decide"
    \/ a = "decide" /\ b = "act" /\ nxt \in ToolActions
    \/ a = "decide" /\ b = "finalize" /\ nxt = "finalize"
    \/ a = "decide" /\ b = "reflect" /\ nxt \notin ToolActions \cup {"finalize"}
    \/ a = "act" /\ b = "tools"
    \/ a = "tools" /\ b = "reflect"
    \/ a = "reflect" /\ b = "finalize" /\ d
    \/ a = "reflect" /\ b = "decide" /\ ~d

\* C7: every node-to-node step of a run is START to plan, plan to decide, decide
\* to act (next_action a tool action), decide to finalize (next_action
\* finalize), decide to reflect (any other next_action), act to tools, tools to
\* reflect, reflect to finalize (done set) or reflect to decide (done not set).
C7_RoutingSteps ==
    [][visits' > visits => AllowedStep(prev, prev', next_action, done)]_vars

C7_Witness ==
    /\ prev = "finalize"
    /\ acts = 2
    /\ next_action = "finalize"
    /\ ~StartsWithBriefing(messages[Len(messages)].content)

\* C8: every run reaches finalize after at most 16 node visits.
C8_FinalizeWithin16Visits ==
    visits >= 16 => (prev = "finalize" /\ visits = 16)

\* C9: done is monotonic: once true it stays true, and after it has been set no
\* node other than finalize is visited.
C9_DoneMonotonic ==
    [][done => (done' /\ (visits' > visits => prev' = "finalize"))]_vars

C9_Witness ==
    /\ done
    /\ prev = "finalize"
    /\ acts >= 1
    /\ StartsWithBriefing(messages[Len(messages)].content)

TokenEvents == SelectSeq(events, LAMBDA e : e.event = "token")
AssistantMessages == SelectSeq(messages, LAMBDA m : m.type = "ai")

\* C10: when a chat run has ended, the token events delivered are the assistant
\* messages appended to the state, each once and in order, and one done event
\* follows the last token.
C10_TokensAreAssistantMessages ==
    node = "CLOSED" =>
        /\ [i \in 1..Len(TokenEvents) |-> TokenEvents[i].data]
             = [i \in 1..Len(AssistantMessages) |-> AssistantMessages[i].content]
        /\ events[Len(events)].event = "done"
        /\ Cardinality({i \in 1..Len(events) : events[i].event = "done"}) = 1

\* C37: the act node is only ever entered with next_action in {search, fetch,
\* kb_search, calculate, write_file, draft_email}: in no run does act take its
\* unknown-action branch, so the tool node never runs on the assistant message
\* act produces on that branch, the one without a tool call for a mapped tool.
C37_ActOnlyWithToolAction ==
    /\ node = "act" =>
          next_action \in {"search", "fetch", "kb_search", "calculate", "write_file", "draft_email"}
    /\ \A i \in 1..Len(messages) : messages[i].content # "Reflecting on gathered info..."
    /\ (node = "tools" /\ prev = "act") =>
          /\ next_action \in {"search", "fetch", "kb_search", "calculate", "write_file", "draft_email"}
          /\ messages[Len(messages)].type = "ai"

C37_Witness ==
    /\ node = "tools"
    /\ prev = "act"
    /\ acts = 2
    /\ next_action = "draft_email"
    /\ messages[Len(messages)] = AIMessage("Calling the tool.", 1)

\* ======================================================================
\* CodingPipelineSession (ui/session.py) behind the endpoints of ui/server.py
\* ======================================================================
MaxRequests == 5

StageIds == {"coding", "review", "formatting", "testing", "qa"}

\* the task texts a client posts (CreateSessionRequest: at least 5 characters)
RawTasks == {"  add two numbers\n", "add two numbers"}

\* task.strip()
StripTask(raw) == IF raw = "  add two numbers\n" THEN "add two numbers" ELSE raw

\* the comments a client posts with its feedback; "None" is an absent comment
RawComments == {"None", "   ", " use a loop\n", "add tests"}

\* (comment or "").strip()
StripComment(raw) ==
    CASE raw = "None" -> ""
      [] raw = "   " -> ""
      [] raw = " use a loop\n" -> "use a loop"
      [] OTHER -> raw

\* the agents the constructor configures
SessionAgents == [coders |-> 2, formatters |-> 1, testers |-> 1, reviewers |-> 1]

ChatMessage(role, content, stage, kind) ==
    [role |-> role, content |-> content, stage |-> stage, kind |-> kind]

\* the object __init__ has built when it calls run_coders()
NewSession(raw) ==
    [base_task |-> StripTask(raw),
     task |-> <<StripTask(raw)>>,
     state |-> <<>>,
     instructions |-> <<>>,
     messages |-> <<ChatMessage("user", StripTask(raw), "intake", "task")>>,
     timeline |-> [id \in StageIds |-> IF id = "coding" THEN "active" ELSE "pending"],
     stage_pointer |-> "coding"]

\* the outcome of a loop over agents: the state dict, whether an agent raised,
\* how many agents were invoked, whether every agent left its flag true
Ran(st, raised, calls, ok) == [state |-> st, raised |-> raised, calls |-> calls, ok |-> ok]

\* for coder in self.pipeline.coders: self.state.update(coder.run(self.state))
RECURSIVE CodersLoop(_, _)
CodersLoop(st, outs) ==
    IF outs = <<>> THEN Ran(st, FALSE, 0, TRUE)
    ELSE IF Head(outs) = "raise" THEN Ran(st, TRUE, 1, TRUE)
    ELSE LET r == CodersLoop(CoderRun(st, Head(outs)), Tail(outs))
         IN  [r EXCEPT !.calls = @ + 1]

RECURSIVE FormattersLoop(_, _)
FormattersLoop(st, outs) ==
    IF outs = <<>> THEN Ran(st, FALSE, 0, TRUE)
    ELSE IF Head(outs) = "raise" THEN Ran(st, TRUE, 1, TRUE)
    ELSE LET r == FormattersLoop(FormatterRun(st, Head(outs)), Tail(outs))
         IN  [r EXCEPT !.calls = @ + 1]

\* run_tests: every tester runs; tests_passed stays true only if each left it true
RECURSIVE TestersLoop(_, _)
TestersLoop(st, outs) ==
    IF outs = <<>> THEN Ran(st, FALSE, 0, TRUE)
    ELSE IF Head(outs)[1] = "raise" THEN Ran(st, TRUE, 1, TRUE)
    ELSE LET s1 == TesterRun(st, Head(outs))
             r == TestersLoop(s1, Tail(outs))
         IN  [r EXCEPT !.calls = @ + 1, !.ok = @ /\ ~TestsFailed(s1)]

\* run_qa: every reviewer runs; all_passed stays true only if each left qa_passed true
RECURSIVE ReviewersLoop(_, _)
ReviewersLoop(st, outs) ==
    IF outs = <<>> THEN Ran(st, FALSE, 0, TRUE)
    ELSE IF Head(outs) = "raise" THEN Ran(st, TRUE, 1, TRUE)
    ELSE LET s1 == QARun(st, Head(outs))
             r == ReviewersLoop(s1, Tail(outs))
         IN  [r EXCEPT !.calls = @ + 1, !.ok = @ /\ ~ReviewFailed(s1)]

\* what a stage runner leaves: the session, whether it raised, the agents it invoked
Left(s, r) == [s |-> s, raised |-> r.raised, calls |-> r.calls]

Say(s, stage) ==
    [s EXCEPT !.messages = Append(@, ChatMessage("assistant", stage, stage, "stage-update"))]

\* (mutant) the coders run, the pointer and the stage statuses stay as they are
RunCodersInPlaceMut(s, outs) ==
    LET r == CodersLoop(s.state, outs) IN Left([s EXCEPT !.state = r.state], r)

\* run_coders, lines 165-195
run_coders(s, outs) ==
    LET s1 == [s EXCEPT !.stage_pointer = "review", !.timeline["coding"] = "active"]
        r == CodersLoop(s1.state, outs)
        s2 == [s1 EXCEPT !.state = r.state]
    IN  IF r.raised THEN Left(s2, r)
        ELSE Left([Say([s2 EXCEPT !.timeline["coding"] = "completed"], "coding")
                      EXCEPT !.timeline["review"] = "awaiting"], r)

run_formatters(s, outs) ==
    LET r == FormattersLoop(s.state, outs)
        s1 == [s EXCEPT !.state = r.state]
    IN  IF r.raised THEN Left(s1, r)
        ELSE Left([Say([s1 EXCEPT !.timeline["formatting"] = "completed"], "formatting")
                      EXCEPT !.timeline["testing"] = "awaiting", !.stage_pointer = "testing"], r)

\* (mutant) a failed stage moves on like a passed one
PointerAfterMut(stage, ok) == IF stage = "testing" THEN "qa" ELSE "complete"

\* lines 275/286 and 322/325: where the pointer goes after the testers (the reviewers)
PointerAfter(stage, ok) ==
    IF ~ok THEN "review" ELSE IF stage = "testing" THEN "qa" ELSE "complete"

run_tests(s, outs) ==
    LET s1 == [s EXCEPT !.timeline["testing"] = "active"]
        r == TestersLoop(s1.state, outs)
        s2 == [s1 EXCEPT !.state = r.state]
    IN  IF r.raised THEN Left(s2, r)
        ELSE IF r.ok
        THEN Left([Say([s2 EXCEPT !.timeline["testing"] = "completed"], "testing")
                      EXCEPT !.timeline["qa"] = "awaiting",
                             !.stage_pointer = PointerAfter("testing", TRUE)], r)
        ELSE Left([Say([s2 EXCEPT !.timeline["testing"] = "failed"], "testing")
                      EXCEPT !.timeline["review"] = "awaiting",
                             !.stage_pointer = PointerAfter("testing", FALSE)], r)

run_qa(s, outs) ==
    LET s1 == [s EXCEPT !.timeline["qa"] = "active"]
        r == ReviewersLoop(s1.state, outs)
        s2 == [s1 EXCEPT !.state = r.state]
    IN  IF r.raised THEN Left(s2, r)
        ELSE IF r.ok
        THEN Left([Say([s2 EXCEPT !.timeline["qa"] = "completed"], "qa")
                      EXCEPT !.stage_pointer = PointerAfter("qa", TRUE),
                             !.state = Put(@, "status", "completed")], r)
        ELSE Left([Say([s2 EXCEPT !.timeline["qa"] = "failed"], "qa")
                      EXCEPT !.timeline["review"] = "awaiting",
                             !.stage_pointer = PointerAfter("qa", FALSE)], r)

\* (mutant) the feedback is appended to the task of the previous round
EnrichedTaskMut(s) == s.task \o s.instructions

\* lines 213-217: base_task, then one "- item" line per instruction
EnrichedTask(s) == <<s.base_task>> \o s.instructions

apply_feedback(s, action, raw, outs) ==
    LET comment == StripComment(raw)
        s1 == IF comment # ""
              THEN [s EXCEPT !.instructions = Append(@, comment),
                             !.messages = Append(@, ChatMessage("user", comment, "review", "feedback"))]
              ELSE s
    IN  IF action = "revise"
        THEN LET s2 == [s1 EXCEPT !.timeline["review"] = "active", !.timeline["coding"] = "active"]
             IN  run_coders([s2 EXCEPT !.task = EnrichedTask(s2)], outs)
        ELSE run_formatters([s1 EXCEPT !.timeline["review"] = "completed",
                                       !.timeline["formatting"] = "active"], outs)

\* (mutant) the guard of run_tests is applied to both actions
AdvanceReadyMut(ptr, action) == ptr = "testing"

\* server.py lines 76 and 80: the pointer the action needs
AdvanceReady(ptr, action) ==
    IF action = "run_tests" THEN ptr = "testing" ELSE ptr = "qa"

\* what the agents of a stage may do: return an output, or raise
Raise == "raise"

CoderChoices == [1..SessionAgents.coders -> CoderOutputs \cup {Raise}]

FormatterChoices(st) ==
    [1..SessionAgents.formatters ->
        FormatterOutputs(Get(st, "proposed_code"))
            \cup (IF Truthy(Get(st, "proposed_code")) THEN {Raise} ELSE {})]

TesterChoices == [1..SessionAgents.testers -> TesterOutputs \cup {<<Raise, "">>}]

ReviewerChoices == [1..SessionAgents.reviewers -> ReviewOutputs \cup {Raise}]

Request(op, action, comment) == [op |-> op, action |-> action, comment |-> comment]

\* the bookkeeping of one handled request
Handled(req, code, calls) ==
    /\ s_req' = req
    /\ s_resp' = code
    /\ s_nreq' = s_nreq + 1
    /\ s_calls' = s_calls + calls

\* POST /api/sessions: store.create(task) builds the session, which runs the coders
CreateSession ==
    /\ session = NoSession
    /\ s_nreq < MaxRequests
    /\ \E raw \in RawTasks, outs \in CoderChoices :
          LET r == run_coders(NewSession(raw), outs) IN
          /\ session' = IF r.raised THEN NoSession ELSE r.s
          /\ Handled(Request("create", "create", "None"), IF r.raised THEN 500 ELSE 200, r.calls)
          /\ s_coderTask' = NewSession(raw).task
    /\ UNCHANGED <<s_given, s_tested>>
    /\ UNCHANGED notSess

\* POST /api/sessions/{id}/feedback
SendFeedback ==
    /\ s_nreq < MaxRequests
    /\ \E action \in {"approve", "revise"}, raw \in RawComments :
          IF session = NoSession
          THEN /\ Handled(Request("feedback", action, raw), 404, 0)
               /\ UNCHANGED <<session, s_given, s_coderTask>>
          ELSE /\ \E outs \in IF action = "revise" THEN CoderChoices
                                                   ELSE FormatterChoices(session.state) :
                     LET r == apply_feedback(session, action, raw, outs) IN
                     /\ session' = r.s
                     /\ Handled(Request("feedback", action, raw),
                                IF r.raised THEN 500 ELSE 200, r.calls)
                     /\ s_coderTask' = IF action = "revise" THEN r.s.task ELSE s_coderTask
               /\ s_given' = IF StripComment(raw) # "" THEN Append(s_given, StripComment(raw))
                                                       ELSE s_given
    /\ UNCHANGED s_tested
    /\ UNCHANGED notSess

\* POST /api/sessions/{id}/advance
Advance ==
    /\ s_nreq < MaxRequests
    /\ \E action \in {"run_tests", "send_to_qa"} :
          IF session = NoSession
          THEN /\ Handled(Request("advance", action, "None"), 404, 0)
               /\ UNCHANGED <<session, s_tested>>
          ELSE IF ~AdvanceReady(session.stage_pointer, action)
          THEN /\ Handled(Request("advance", action, "None"), 409, 0)
               /\ UNCHANGED <<session, s_tested>>
          ELSE \E outs \in IF action = "run_tests" THEN TesterChoices ELSE ReviewerChoices :
                  LET r == IF action = "run_tests" THEN run_tests(session, outs)
                                                   ELSE run_qa(session, outs) IN
                  /\ session' = r.s
                  /\ Handled(Request("advance", action, "None"),
                             IF r.raised THEN 500 ELSE 200, r.calls)
                  /\ s_tested' = IF action = "run_tests" /\ \A i \in DOMAIN outs : outs[i][1] = "True"
                                 THEN Get(session.state, "proposed_code")
                                 ELSE s_tested
    /\ UNCHANGED <<s_given, s_coderTask>>
    /\ UNCHANGED notSess

SessionNext ==
    \/ CreateSession
    \/ SendFeedback
    \/ Advance

\* the UI server with an empty store, nothing else running
InitSession == SessIdle /\ PipeIdle /\ GraphIdle /\ RateIdle /\ StreamIdle /\ TraceIdle /\ CtxIdle /\ RunTraceIdle /\ LlmIdle /\ RagIdle /\ DedupeIdle

SpecSession == InitSession /\ [][SessionNext]_vars

\* -------------------------------------------------------- session: claims
\* the step is the handling of a request of this kind on an existing session
Handles(op, action) ==
    /\ s_nreq' # s_nreq
    /\ session # NoSession
    /\ s_req'.op = op
    /\ s_req'.action = action

Pointer == session.stage_pointer

\* C11: advance(run_tests) is rejected with a conflict whenever the stage pointer
\* is not testing, and advance(send_to_qa) whenever it is not qa; a rejected call
\* runs no agent and leaves the session (pointer, stage statuses, state,
\* messages) unchanged.
C11_AdvanceRejectedOnMismatch ==
    [][/\ (Handles("advance", "run_tests") /\ Pointer # "testing") =>
              (s_resp' = 409 /\ session' = session /\ s_calls' = s_calls)
       /\ (Handles("advance", "send_to_qa") /\ Pointer # "qa") =>
              (s_resp' = 409 /\ session' = session /\ s_calls' = s_calls)]_vars

C11_Witness ==
    /\ s_req = Request("advance", "send_to_qa", "None")
    /\ s_resp = 409
    /\ Pointer = "testing"

\* C12: the stage transitions follow the timeline. Of the calls that return:
\* approve at review runs the formatters and leaves the pointer at testing with
\* testing awaiting; run_tests at testing moves the pointer to qa (awaiting) when
\* the tests pass and to review (awaiting) when they fail; send_to_qa at qa moves
\* the pointer to complete when QA passes and to review (awaiting) when it fails.
C12_TransitionsFollowTimeline ==
    [][s_resp' = 200 =>
        /\ (Handles("feedback", "approve") /\ Pointer = "review") =>
              /\ s_calls' = s_calls + SessionAgents.formatters
              /\ session'.stage_pointer = "testing"
              /\ session'.timeline["testing"] = "awaiting"
        /\ (Handles("advance", "run_tests") /\ Pointer = "testing") =>
              IF Truthy(Get(session'.state, "tests_passed"))
              THEN session'.stage_pointer = "qa" /\ session'.timeline["qa"] = "awaiting"
              ELSE session'.stage_pointer = "review" /\ session'.timeline["review"] = "awaiting"
        /\ (Handles("advance", "send_to_qa") /\ Pointer = "qa") =>
              IF Truthy(Get(session'.state, "qa_passed"))
              THEN session'.stage_pointer = "complete"
              ELSE session'.stage_pointer = "review" /\ session'.timeline["review"] = "awaiting"]_vars

C12_Witness ==
    /\ s_req = Request("advance", "send_to_qa", "None")
    /\ s_resp = 200
    /\ Pointer = "review"
    /\ session.timeline["testing"] = "completed"
    /\ session.timeline["formatting"] = "completed"
    /\ session.timeline["qa"] = "failed"

\* C13: complete is terminal: once the stage pointer is complete, no later
\* apply_feedback or advance call changes the stage pointer, any stage status or
\* the proposed_code.
C13_CompleteIsTerminal ==
    [][Pointer = "complete" =>
          /\ session'.stage_pointer = "complete"
          /\ session'.timeline = session.timeline
          /\ Get(session'.state, "proposed_code") = Get(session.state, "proposed_code")]_vars

\* C14: after a revise with comments c1..cn given so far in the session, the
\* coders are re-run on the base task followed by c1..cn, each once and in the
\* order given, and the pointer returns to review awaiting.
C14_ReviseUsesBaseTaskAndAllComments ==
    [][Handles("feedback", "revise") =>
          /\ s_coderTask' = <<session.base_task>> \o s_given'
          /\ s_calls' > s_calls
          /\ s_resp' = 200 =>
                /\ s_calls' = s_calls + SessionAgents.coders
                /\ session'.task = s_coderTask'
                /\ session'.stage_pointer = "review"
                /\ session'.timeline["review"] = "awaiting"]_vars

C14_Witness ==
    /\ s_req.action = "revise"
    /\ s_resp = 200
    /\ s_nreq = 3
    /\ s_calls = 3 * SessionAgents.coders
    /\ Len(s_given) = 2
    /\ s_given[1] # s_given[2]
    /\ s_coderTask = <<session.base_task>> \o s_given

\* C38: after every completed operation on a session whose pointer is not
\* complete, the stage named by the stage pointer has status awaiting and no
\* other stage has status awaiting or active, for any sequence of feedback and
\* advance operations the server accepts.
C38_OnlyPointerStageAwaiting ==
    (session # NoSession /\ s_resp = 200 /\ Pointer # "complete") =>
        /\ session.timeline[Pointer] = "awaiting"
        /\ \A id \in StageIds \ {Pointer} : session.timeline[id] \notin {"awaiting", "active"}

\* C39: whenever the stage pointer is qa, the proposed_code in the session state
\* is exactly the code on which the most recent run_tests passed: no sequence of
\* feedback and advance operations lets send_to_qa run on code that was changed
\* after its last passing test run.
C39_QaSeesTestedCode ==
    /\ [](session # NoSession =>
              (Pointer = "qa" => Get(session.state, "proposed_code") = s_tested))
    /\ [][(Handles("advance", "send_to_qa") /\ s_calls' > s_calls) =>
              Get(session.state, "proposed_code") = s_tested]_vars

C39_Witness ==
    /\ session # NoSession
    /\ s_req = Request("advance", "send_to_qa", "None")
    /\ s_resp = 200
    /\ s_nreq = 5
    /\ s_tested = "def add (fmt)"
    /\ Get(session.state, "proposed_code") = "def add (fmt)"
    /\ Pointer = "complete"

\* ======================================================================
\* the per-chat token bucket (infra/rate_limit.py) in front of api_chat
\* ======================================================================
MaxTime == 12
\* the clock is observed every TickSeconds seconds
TickSeconds == 3

RATE == 5
PER_SECONDS == 10
InitialTokens == 5

\* the messages a client posts
RawMessages == {"   ", " hello\n"}

\* payload.get("message", "").strip()
StripMessage(raw) == IF raw = " hello\n" THEN "hello" ELSE ""

Min(a, b) == IF a <= b THEN a ELSE b

\* _BUCKETS[chat_id] of a defaultdict: a missing bucket is created full, at the time of the call
Bucket(c) ==
    IF c \in DOMAIN buckets THEN buckets[c] ELSE [last |-> now, tokens |-> InitialTokens]

\* (mutant) the refill is not capped
RefillMut(tokens, elapsed) == tokens + (elapsed \div PER_SECONDS) * RATE

\* line 14: min(RATE, tokens + int((now - last) / PER_SECONDS) * RATE)
Refill(tokens, elapsed) == Min(RATE, tokens + (elapsed \div PER_SECONDS) * RATE)

\* allow(chat_id): the value returned and the bucket stored
allow(c) ==
    LET new_tokens == Refill(Bucket(c).tokens, now - Bucket(c).last)
    IN  IF new_tokens <= 0
        THEN [ok |-> FALSE, bucket |-> [last |-> now, tokens |-> new_tokens]]
        ELSE [ok |-> TRUE, bucket |-> [last |-> now, tokens |-> new_tokens - 1]]

\* the grant times that lie less than PER_SECONDS before t
Recent(times, t) == SelectSeq(times, LAMBDA g : t - g < PER_SECONDS)

\* POST /api/chat up to the point the response is returned
ApiChat ==
    \E c \in ChatIds, raw \in RawMessages :
       /\ r_req' = c
       /\ IF StripMessage(raw) = ""
          THEN /\ r_resp' = 400
               /\ UNCHANGED <<buckets, r_grants, r_emptied>>
          ELSE LET a == allow(c) IN
               /\ buckets' = Put(buckets, c, a.bucket)
               /\ r_resp' = IF a.ok THEN 200 ELSE 429
               /\ r_grants' = IF a.ok
                              THEN [r_grants EXCEPT ![c] = Append(Recent(@, now), now)]
                              ELSE r_grants
               /\ r_emptied' = IF ~a.ok THEN r_emptied
                               ELSE IF a.bucket.tokens = 0 THEN [r_emptied EXCEPT ![c] = now]
                               ELSE [r_emptied EXCEPT ![c] = -1]
       /\ UNCHANGED now
       /\ UNCHANGED notRate

\* time passes
Tick ==
    /\ now + TickSeconds <= MaxTime
    /\ now' = now + TickSeconds
    /\ r_req' = "none"
    /\ r_resp' = 0
    /\ UNCHANGED <<buckets, r_grants, r_emptied>>
    /\ UNCHANGED notRate

RateNext ==
    \/ ApiChat
    \/ Tick

InitRate == RateIdle /\ PipeIdle /\ GraphIdle /\ SessIdle /\ StreamIdle /\ TraceIdle /\ CtxIdle /\ RunTraceIdle /\ LlmIdle /\ RagIdle /\ DedupeIdle

SpecRate == InitRate /\ [][RateNext]_vars

\* --------------------------------------------------- rate limiter: claims
\* C15: for every chat id, at most 5 requests are granted in any time window
\* shorter than 10 seconds, and a request made while the bucket is empty (no
\* token stored and no refill due) is rejected with 429, after any sequence of
\* requests at any times.
C15_AtMostFivePerWindow ==
    /\ [](\A c \in ChatIds :
            /\ Len(r_grants[c]) <= 5
            /\ \A i \in 1..Len(r_grants[c]) : r_grants[c][Len(r_grants[c])] - r_grants[c][i] < 10)
    /\ [][\A c \in ChatIds :
            (/\ r_req' = c
             /\ r_resp' \in {200, 429}
             /\ c \in DOMAIN buckets
             /\ buckets[c].tokens = 0
             /\ now - buckets[c].last < 10) => r_resp' = 429]_vars

C15_Witness ==
    /\ r_req = "chat-a"
    /\ r_resp = 429
    /\ now = 12
    /\ r_grants["chat-a"] = <<3, 6, 12, 12, 12>>
    /\ "chat-b" \in DOMAIN buckets

\* C16: a chat whose bucket is empty is granted requests again once 10 seconds
\* have passed since the bucket was emptied, however many rejected requests it
\* made in between.
C16_RefillTenSecondsAfterEmptied ==
    [][\A c \in ChatIds :
          (/\ r_req' = c
           /\ r_resp' \in {200, 429}
           /\ r_emptied[c] # -1
           /\ now - r_emptied[c] >= 10) => r_resp' = 200]_vars

\* ======================================================================
\* the stream handlers: run_pipeline_stream (Agentic-Coding-Pipeline/services.py),
\* run_rag_stream (Agentic-RAG-Pipeline/services.py), gen of api_chat (app.py)
\* ======================================================================
MaxChunks == 4

\* an event as the handlers yield it
Ev(event, data) == [event |-> event, data |-> data]

Log(label, value) == Ev("log", <<label, value>>)

\* analyze_repo: with no input, or on any failure, a context without path
RepoContexts ==
    {[path |-> "None", summary |-> "No repository provided."],
     [path |-> "/repo", summary |-> "Languages: Python"]}

\* the task texts a client sends; "None" is an absent text
TaskTexts == {"None", "", "  ", "fix bug", " fix bug\ndetails "}

\* (text or "").strip()
StripText(text) ==
    CASE text \in {"None", "", "  "} -> ""
      [] text = " fix bug\ndetails " -> "fix bug\ndetails"
      [] OTHER -> text

\* resolve_task with neither jira nor github: the stripped text, its first line as title
resolve_task(text) ==
    CASE StripText(text) = "" -> [source |-> "text", title |-> "Untitled Task", description |-> ""]
      [] text = "fix bug" -> [source |-> "text", title |-> "fix bug", description |-> "fix bug"]
      [] OTHER -> [source |-> "text", title |-> "fix bug", description |-> "fix bug\ndetails"]

\* what pipeline.run(prompt) of build_pipeline() returns: max_iterations is 3, so
\* the run ends completed, failed without code, or failed with feedback
PipelineResults ==
    {("status" :> "completed") @@ ("proposed_code" :> "def add") @@ ("tests_passed" :> "True")
        @@ ("test_output" :> "1 passed") @@ ("qa_passed" :> "True") @@ ("qa_output" :> "PASS"),
     ("status" :> "failed") @@ ("reason" :> "coder did not return code") @@ ("proposed_code" :> ""),
     ("status" :> "failed") @@ ("proposed_code" :> "def add") @@ ("tests_passed" :> "False")
        @@ ("test_output" :> "AssertionError") @@ ("feedback" :> "AssertionError"),
     ("status" :> "failed") @@ ("proposed_code" :> "def add") @@ ("tests_passed" :> "True")
        @@ ("test_output" :> "1 passed") @@ ("qa_passed" :> "False")
        @@ ("qa_output" :> "bug: off by one") @@ ("feedback" :> "bug: off by one")}

\* result.get("status", "unknown")
StatusOf(result) == IF "status" \in DOMAIN result THEN result["status"] ELSE "unknown"

\* lines 346-350: the first of test_output, qa_output, feedback that is not empty
FirstFeedback(result) ==
    IF Truthy(Get(result, "test_output")) THEN Get(result, "test_output")
    ELSE IF Truthy(Get(result, "qa_output")) THEN Get(result, "qa_output")
    ELSE IF Truthy(Get(result, "feedback")) THEN Get(result, "feedback")
    ELSE ""

\* lines 325-340: the events up to the call of the pipeline
IntakeEvents(repo, tsk) ==
    <<Log("Starting pipeline", "")>>
    \o <<IF repo.path # "None" THEN Log("Repo prepared", repo.path) ELSE Log("Repo note", repo.summary)>>
    \o <<Log("Task source", tsk.source)>>
    \o (IF tsk.title # "" THEN <<Log("Title", tsk.title)>> ELSE <<>>)
    \o (IF tsk.description # "" THEN <<Log("Description", tsk.description)>> ELSE <<>>)
    \o <<Log("Running agents", "")>>

\* lines 354-365: the payload of the coding handler's done event
CodingPayload(result) == [status |-> StatusOf(result), repo |-> "repo", task |-> "task"]

\* lines 344-366: the events after the pipeline has returned
ResultEvents(result) ==
    <<Log("Status", StatusOf(result))>>
    \o (IF FirstFeedback(result) # "" THEN <<Log("Feedback", FirstFeedback(result))>> ELSE <<>>)
    \o <<Ev("done", CodingPayload(result))>>

\* what ask(session_id, query) returns
AskResults == {[answer |-> " 42 ", citations |-> <<"doc1">>], [answer |-> "", citations |-> <<>>]}

\* (mutant) done is yielded before the sources
AnswerEventsMut(result) ==
    <<Ev("answer", <<"answer", result.answer>>),
      Ev("done", [ok |-> "True", session_id |-> "s1"]),
      Ev("sources", result.citations)>>

\* RAG services.py lines 89-94: the events after ask has returned
AnswerEvents(result) ==
    <<Ev("answer", <<"answer", result.answer>>),
      Ev("sources", result.citations),
      Ev("done", [ok |-> "True", session_id |-> "s1"])>>

\* run_pipeline_stream up to pipeline.run
CodingStreamStart ==
    /\ h_pc = "idle"
    /\ h_kind' = "coding"
    /\ h_pc' = "engine"
    /\ \E repo \in RepoContexts, text \in TaskTexts :
          /\ h_text' = text
          /\ h_events' = IntakeEvents(repo, resolve_task(text))
    /\ UNCHANGED h_chunks
    /\ UNCHANGED notStream

\* pipeline.run returns and the handler runs to its end
CodingStreamFinish ==
    /\ h_kind = "coding"
    /\ h_pc = "engine"
    /\ \E result \in PipelineResults : h_events' = h_events \o ResultEvents(result)
    /\ h_pc' = "closed"
    /\ UNCHANGED <<h_kind, h_text, h_chunks>>
    /\ UNCHANGED notStream

\* run_rag_stream up to ask
RagStreamStart ==
    /\ h_pc = "idle"
    /\ h_kind' = "rag"
    /\ h_pc' = "engine"
    /\ h_events' = <<Log("Planning and retrieving evidence", "")>>
    /\ UNCHANGED <<h_text, h_chunks>>
    /\ UNCHANGED notStream

RagStreamFinish ==
    /\ h_kind = "rag"
    /\ h_pc = "engine"
    /\ \E result \in AskResults : h_events' = h_events \o AnswerEvents(result)
    /\ h_pc' = "closed"
    /\ UNCHANGED <<h_kind, h_text, h_chunks>>
    /\ UNCHANGED notStream

\* api_chat lines 106-108: a payload whose stripped message is empty is
\* answered with HTTP 400 "message required"
ChatRejected ==
    \E message \in TaskTexts :
        /\ h_pc = "idle"
        /\ StripText(message) = ""
        /\ h_kind' = "chat"
        /\ h_text' = message
        /\ h_pc' = "rejected"
        /\ UNCHANGED <<h_events, h_chunks>>
        /\ UNCHANGED notStream

\* api_chat lines 106-115: the message is not empty, gen() is started
ChatStreamStart ==
    \E message \in TaskTexts :
        /\ h_pc = "idle"
        /\ StripText(message) # ""
        /\ h_kind' = "chat"
        /\ h_text' = message
        /\ h_pc' = "engine"
        /\ h_events' = <<>>
        /\ UNCHANGED h_chunks
        /\ UNCHANGED notStream

\* run_chat yields a chunk and gen passes it on as a token event
ChatStreamToken ==
    /\ h_kind = "chat"
    /\ h_pc = "engine"
    /\ h_chunks < MaxChunks
    /\ \E chunk \in {"plan", "briefing"} : h_events' = Append(h_events, Ev("token", <<"chunk", chunk>>))
    /\ h_chunks' = h_chunks + 1
    /\ UNCHANGED <<h_kind, h_pc, h_text>>
    /\ UNCHANGED notStream

\* run_chat is exhausted: line 114
ChatStreamFinish ==
    /\ h_kind = "chat"
    /\ h_pc = "engine"
    /\ h_events' = Append(h_events, Ev("done", [chat_id |-> "chat-a"]))
    /\ h_pc' = "closed"
    /\ UNCHANGED <<h_kind, h_text, h_chunks>>
    /\ UNCHANGED notStream

\* pipeline.run, ask or run_chat raises: no handler has a try/except around it,
\* so the exception ends the generator
EngineRaises ==
    /\ h_pc = "engine"
    /\ h_pc' = "raised"
    /\ UNCHANGED <<h_kind, h_text, h_events, h_chunks>>
    /\ UNCHANGED notStream

StreamNext ==
    \/ CodingStreamStart
    \/ CodingStreamFinish
    \/ RagStreamStart
    \/ RagStreamFinish
    \/ ChatRejected
    \/ ChatStreamStart
    \/ ChatStreamToken
    \/ ChatStreamFinish
    \/ EngineRaises

InitStream == StreamIdle /\ PipeIdle /\ GraphIdle /\ SessIdle /\ RateIdle /\ TraceIdle /\ CtxIdle /\ RunTraceIdle /\ LlmIdle /\ RagIdle /\ DedupeIdle

SpecStream == InitStream /\ [][StreamNext]_vars

\* ------------------------------------------------- stream handlers: claims
DoneEvents == {i \in 1..Len(h_events) : h_events[i].event = "done"}

\* C17: every invocation of a stream handler that completes without error emits
\* exactly one done event, and that done event is the last event of the stream.
C17_OneDoneAndLast ==
    /\ DoneEvents \subseteq {Len(h_events)}
    /\ h_pc = "closed" => DoneEvents = {Len(h_events)}
    /\ DoneEvents # {} => h_pc = "closed"

C17_Witness ==
    /\ h_kind = "rag"
    /\ h_pc = "closed"
    /\ Len(h_events) = 4
    /\ h_events[3].event = "sources"
    /\ Len(h_events[3].data) = 1

\* C18: when an agent or engine raises during a streamed invocation, the stream
\* still ends with a done event whose payload carries status failed and the error.
C18_RaiseEndsWithFailedDone ==
    h_pc = "raised" =>
        /\ Len(h_events) > 0
        /\ h_events[Len(h_events)].event = "done"
        /\ "status" \in DOMAIN h_events[Len(h_events)].data
        /\ h_events[Len(h_events)].data["status"] = "failed"
        /\ "error" \in DOMAIN h_events[Len(h_events)].data

\* C19: the payload of every done event emitted by any stream handler (coding,
\* RAG, chat) is a JSON object that contains a status field.
C19_DonePayloadHasStatus ==
    \A i \in DoneEvents : "status" \in DOMAIN h_events[i].data

\* C36: a request with an empty task is rejected as input_invalid before any
\* agent or engine work starts, on every pipeline entry point (chat, coding run,
\* coding stream).
C36_EmptyTaskRejected ==
    (h_kind \in {"coding", "chat"} /\ h_text \in {"None", ""}) =>
        /\ h_pc = "rejected"
        /\ h_events = <<>>

\* ======================================================================
\* TraceStore: one JSONL file per chat id (memory/trace_store.py)
\* ======================================================================
MaxRecords == 3

\* base_dir / f"{chat_id}.jsonl": pathlib drops a leading "./"
_trace_file(chat_id) ==
    IF chat_id = "chat-b" THEN "data/traces/chat-b.jsonl" ELSE "data/traces/chat-a.jsonl"

\* the metadata a caller passes: nothing, JSON-native values, a tuple, an object
\* json cannot serialize
Metadatas == {"None", "{latency_ms: 5}", "{args: (1, 2)}", "{tracer: <object>}"}

\* metadata or {}
OrEmpty(metadata) == IF metadata = "None" THEN "{}" ELSE metadata

TraceFields ==
    {"timestamp", "event_type", "chat_id", "trace_id", "span_id",
     "node", "tool", "prompt", "output", "metadata"}

\* TraceEvent(...): the fields not given are None
TraceEvent(event_type, chat_id, given) ==
    [f \in TraceFields |->
        CASE f = "timestamp" -> "t" \o ToString(t_n)
          [] f = "event_type" -> event_type
          [] f = "chat_id" -> chat_id
          [] f \in DOMAIN given -> given[f]
          [] OTHER -> "None"]

\* TraceEvent.to_dict: None values are left out
to_dict(event) == [f \in {g \in TraceFields : event[g] # "None"} |-> event[f]]

\* whether json.dump can serialize the value
Serializable(v) == v # "{tracer: <object>}"

\* a value after json.dump and json.loads: a tuple comes back as a list
JsonValue(v) == IF v = "{args: (1, 2)}" THEN "{args: [1, 2]}" ELSE v

\* a line of a file: the object it encodes, whether it is valid JSON, whether its
\* newline has been written
Line(obj, valid, closed) == [obj |-> obj, valid |-> valid, closed |-> closed]

\* with trace_file.open('a'): json.dump(event.to_dict(), f); f.write('\n').
\* json.dump writes as it goes: when a value cannot be serialized the text so
\* far stays in the file without a newline, and the next write continues that line
AppendLine(lines, d) ==
    LET open == lines # <<>> /\ ~lines[Len(lines)].closed
        ok == \A f \in DOMAIN d : Serializable(d[f])
        obj == [f \in DOMAIN d |-> JsonValue(d[f])]
    IN  IF open
        THEN [lines EXCEPT ![Len(lines)] = Line(<<>>, FALSE, ok)]
        ELSE Append(lines, IF ok THEN Line(obj, TRUE, TRUE) ELSE Line(<<>>, FALSE, FALSE))

Lines(path) == IF path \in DOMAIN files THEN files[path] ELSE <<>>

\* lines 215-226: data['timestamp'] .. data.get('metadata')
FromJson(data) == [f \in TraceFields |-> IF f \in DOMAIN data THEN data[f] ELSE "None"]

\* get_trace(chat_id): json.loads raises on a line that is not valid JSON
get_trace(chat_id) ==
    LET lines == Lines(_trace_file(chat_id)) IN
    IF \E i \in 1..Len(lines) : ~lines[i].valid
    THEN [raised |-> TRUE, events |-> <<>>]
    ELSE [raised |-> FALSE, events |-> [i \in 1..Len(lines) |-> FromJson(lines[i].obj)]]

\* record_event(event)
record_event(event) ==
    /\ t_n < MaxRecords
    /\ files' = Put(files, _trace_file(event["chat_id"]),
                    AppendLine(Lines(_trace_file(event["chat_id"])), to_dict(event)))
    /\ t_n' = t_n + 1
    /\ IF \A f \in TraceFields : Serializable(event[f])
       THEN /\ t_recorded' = [t_recorded EXCEPT ![event["chat_id"]] = Append(@, event)]
            /\ t_last' = "returned"
       ELSE /\ t_last' = "raised"
            /\ UNCHANGED t_recorded
    /\ UNCHANGED notTrace

record_node_enter ==
    \E c \in TraceChatIds, md \in Metadatas :
        record_event(TraceEvent("node_enter", c,
            ("node" :> "plan") @@ ("span_id" :> "span1") @@ ("metadata" :> OrEmpty(md))))

record_node_exit ==
    \E c \in TraceChatIds, md \in Metadatas :
        record_event(TraceEvent("node_exit", c,
            ("node" :> "plan") @@ ("span_id" :> "span1") @@ ("metadata" :> OrEmpty(md))))

record_tool_call ==
    \E c \in TraceChatIds, md \in Metadatas :
        record_event(TraceEvent("tool_call", c,
            ("tool" :> "search") @@ ("prompt" :> "query") @@ ("metadata" :> OrEmpty(md))))

record_tool_result ==
    \E c \in TraceChatIds, md \in Metadatas :
        record_event(TraceEvent("tool_result", c,
            ("tool" :> "search") @@ ("output" :> "hits") @@ ("metadata" :> OrEmpty(md))))

record_llm_prompt ==
    \E c \in TraceChatIds, md \in Metadatas :
        record_event(TraceEvent("llm_prompt", c,
            ("prompt" :> "Test prompt") @@ ("span_id" :> "span1") @@ ("metadata" :> OrEmpty(md))))

record_llm_output ==
    \E c \in TraceChatIds, md \in Metadatas :
        record_event(TraceEvent("llm_output", c,
            ("output" :> "Test output") @@ ("span_id" :> "span1") @@ ("metadata" :> OrEmpty(md))))

TraceNext ==
    \/ record_node_enter
    \/ record_node_exit
    \/ record_tool_call
    \/ record_tool_result
    \/ record_llm_prompt
    \/ record_llm_output

InitTrace == TraceIdle /\ PipeIdle /\ GraphIdle /\ SessIdle /\ RateIdle /\ StreamIdle /\ CtxIdle /\ RunTraceIdle /\ LlmIdle /\ RagIdle /\ DedupeIdle

SpecTrace == InitTrace /\ [][TraceNext]_vars

\* ----------------------------------------------------- TraceStore: claims
\* C20: for any sequence of record operations, get_trace(chat_id) returns exactly
\* the events recorded for that chat id, with the same field values and in the
\* order recorded; events recorded for other chat ids never appear, and a later
\* write never changes or removes an earlier event.
C20_TraceRoundTrip ==
    \A c \in TraceChatIds :
        /\ ~get_trace(c).raised
        /\ get_trace(c).events = t_recorded[c]

\* ---------------------------------- graph: journals and replay, claims
\* C21: every trace event the graph nodes and the tool node record during
\* run_chat(chat_id, ...) is in the journal of that chat id, so no journal
\* holds the events of another session.
C21_NodeEventsInOwnJournal ==
    \A j \in JournalIds : journals[j] # <<>> => j = run_chat_id

\* C28: for a journal written by run_chat with tracing enabled, ReplayEngine
\* recovers the recorded initial user message, and replay_chat starts the graph
\* from that same message.
C28_ReplayRecoversUserMessage ==
    /\ rp_pc # "idle" => rp_user_message = messages[1].content
    /\ rp_pc \notin {"idle", "built"} =>
          (rp_pc = "started" /\ rp_messages = <<HumanMessage(messages[1].content)>>)

\* C29: the replay of a recorded run delivers to its consumer the assistant
\* messages the run delivered, in the same order.
C29_ReplayDeliversSameMessages ==
    rp_pc \notin {"idle", "built"} =>
        rp_chunks = [i \in 1..Len(TokenEvents) |-> TokenEvents[i].data]

\* ======================================================================
\* trace_run and the current tracer (infra/trace.py), as entered by the runs
\* that run_all_tasks(parallel=True) gathers (evals/runner.py)
\* ======================================================================
\* get_current_tracer()
get_current_tracer == current_tracer

\* trace_run up to its yield: with tracing disabled it yields None and touches
\* nothing; otherwise it saves the current tracer and installs the run's own.
\* The code between two awaits runs without interleaving.
TraceRunEnter ==
    \E r \in Runs, enable_tracing \in BOOLEAN :
        /\ c_pc[r] = "out"
        /\ IF ~enable_tracing
           THEN /\ c_pc' = [c_pc EXCEPT ![r] = "untraced"]
                /\ UNCHANGED <<current_tracer, c_old>>
           ELSE /\ c_old' = [c_old EXCEPT ![r] = get_current_tracer]
                /\ current_tracer' = r
                /\ c_pc' = [c_pc EXCEPT ![r] = "open"]
        /\ c_seen' = [c_seen EXCEPT ![r] = "none"]
        /\ UNCHANGED notCtx

\* a call of get_current_tracer() from the body of an open run
GetCurrentTracer ==
    \E r \in Runs :
        /\ c_pc[r] = "open"
        /\ c_seen' = [c_seen EXCEPT ![r] = get_current_tracer]
        /\ UNCHANGED <<current_tracer, c_pc, c_old>>
        /\ UNCHANGED notCtx

\* trace_run after its yield: the finally clause restores the tracer saved on entry
TraceRunExit ==
    \E r \in Runs :
        /\ c_pc[r] \in {"open", "untraced"}
        /\ current_tracer' = IF c_pc[r] = "open" THEN c_old[r] ELSE current_tracer
        /\ c_pc' = [c_pc EXCEPT ![r] = "out"]
        /\ UNCHANGED <<c_old, c_seen>>
        /\ UNCHANGED notCtx

CtxNext ==
    \/ TraceRunEnter
    \/ GetCurrentTracer
    \/ TraceRunExit

InitCtx == CtxIdle /\ PipeIdle /\ GraphIdle /\ SessIdle /\ RateIdle /\ StreamIdle /\ TraceIdle /\ RunTraceIdle /\ LlmIdle /\ RagIdle /\ DedupeIdle

SpecCtx == InitCtx /\ [][CtxNext]_vars

\* ------------------------------------------------- current tracer: claims
\* C22: with several trace_run contexts open at the same time,
\* get_current_tracer() called inside a run returns that run's own tracer while
\* the run is open, and once every context has exited the current tracer is
\* what it was before the first was entered (None).
C22_CurrentTracerIsOwnAndRestored ==
    /\ \A r \in Runs : (c_pc[r] = "open" /\ c_seen[r] # "none") => c_seen[r] = r
    /\ (\A r \in Runs : c_pc[r] = "out") => current_tracer = "None"

\* ======================================================================
\* RunTracer (infra/trace.py): what it writes to a run's journal, and
\* ReplaySession / MockTool (infra/replay.py) replaying the tool calls of it
\* ======================================================================
\* a value of an event's data dict: a str, an int, None, or a nested dict
Str(s) == [kind |-> "str", text |-> s, items |-> <<>>]
Num(s) == [kind |-> "int", text |-> s, items |-> <<>>]
NoneValue == [kind |-> "None", text |-> "None", items |-> <<>>]
Dict(d) == [kind |-> "dict", text |-> "", items |-> d]

\* the tools whose calls are traced
TracedTools == {"search", "calculate"}

\* the keyword arguments of the calls
ArgDicts ==
    { ("q" :> "12 x 7"),
      ("q" :> "12 x 7") @@ ("api_key" :> "sk-live-123"),
      ("q" :> "kb") @@ ("client_secret" :> "s3cr3t") }

\* hashlib.md5(json.dumps(args, sort_keys=True).encode()).hexdigest()[:8]
ArgsHash(args) ==
    IF args = ("q" :> "12 x 7") THEN "0f3a91c2"
    ELSE IF args = ("q" :> "12 x 7") @@ ("api_key" :> "sk-live-123") THEN "7be0d415"
    ELSE "c96e2a08"

\* results of 4 and of 2500 characters
LongResult == "<2500 characters>"
ToolOutcomes == {[result |-> "84", error |-> "None"],
                 [result |-> "85", error |-> "None"],
                 [result |-> LongResult, error |-> "None"],
                 [result |-> "None", error |-> "timeout"]}

\* len(value)
StrLen(s) == IF s = LongResult THEN 2500 ELSE 11

\* settings.TRACE_MAX_CONTENT_LENGTH
TRACE_MAX_CONTENT_LENGTH == 2000

\* value[:max_content_length] + f"...[TRUNCATED:{len(value)} chars]"
Truncated(s) == IF s = LongResult THEN "<2000 characters>...[TRUNCATED:2500 chars]" ELSE s

\* key.lower()
KeyLower(key) == key

\* the patterns of the list that occur in a (lower-cased) key as a substring
PatternsIn(key) ==
    IF key = "api_key" THEN {"api_key"}
    ELSE IF key \in {"input_tokens", "output_tokens"} THEN {"token"}
    ELSE IF key = "client_secret" THEN {"secret"}
    ELSE {}

\* _redact_sensitive_data line 87
sensitive_keys == {"api_key", "token", "password", "authorization", "cookie"}

\* _redact_sensitive_data: only the keys of data itself are examined, and only
\* its str values are truncated
_redact_sensitive_data(data) ==
    LET redacted == [key \in DOMAIN data |->
                        IF PatternsIn(KeyLower(key)) \cap sensitive_keys # {}
                        THEN Str("[REDACTED]") ELSE data[key]]
    IN [key \in DOMAIN redacted |->
           IF redacted[key].kind = "str" /\ StrLen(redacted[key].text) > TRACE_MAX_CONTENT_LENGTH
           THEN Str(Truncated(redacted[key].text)) ELSE redacted[key]]

\* RunTracer._emit_event: the event appended to the file; time.time() grows
\* with every event
_emit_event(event_type, node_name, data) ==
    rt_file' = Append(rt_file, [event_type |-> event_type, timestamp |-> Len(rt_file) + 1,
                                node_name |-> node_name, data |-> _redact_sensitive_data(data)])

\* RunTracer.log_tool_request, the start of tool call k
log_tool_request ==
    \E k \in 1..MaxCalls, tool_name \in TracedTools, args \in ArgDicts :
        /\ rs_pc = "recording"
        /\ rt_calls[k].pc = "none"
        /\ \A j \in 1..(k - 1) : rt_calls[j].pc # "none"
        /\ _emit_event("tool_request", "tools",
                       ("tool_name" :> Str(tool_name)) @@ ("args" :> Dict(args))
                       @@ ("args_hash" :> Str(ArgsHash(args))))
        /\ rt_calls' = [rt_calls EXCEPT ![k] = [pc |-> "requested", tool |-> tool_name, args |-> args,
                                                 result |-> "None", error |-> "None"]]
        /\ UNCHANGED <<rs_pc, tool_responses, mt_last>>
        /\ UNCHANGED notRunTrace

\* RunTracer.log_tool_response, the end of tool call k
log_tool_response ==
    \E k \in 1..MaxCalls, o \in ToolOutcomes :
        /\ rs_pc = "recording"
        /\ rt_calls[k].pc = "requested"
        /\ _emit_event("tool_response", "tools",
                       ("tool_name" :> Str(rt_calls[k].tool))
                       @@ ("result" :> (IF o.result = "None" THEN NoneValue ELSE Str(o.result)))
                       @@ ("result_hash" :> (IF o.result = "None" THEN NoneValue ELSE Str("md5")))
                       @@ ("error" :> (IF o.error = "None" THEN NoneValue ELSE Str(o.error))))
        /\ rt_calls' = [rt_calls EXCEPT ![k].pc = "responded", ![k].result = o.result,
                                        ![k].error = o.error]
        /\ UNCHANGED <<rs_pc, tool_responses, mt_last>>
        /\ UNCHANGED notRunTrace

\* RunTracer.log_llm_call
log_llm_call ==
    \E input_tokens \in {"None", "12"} :
        /\ rs_pc = "recording"
        /\ Cardinality({i \in 1..Len(rt_file) : rt_file[i].event_type = "llm_call"}) < MaxLlmCalls
        /\ _emit_event("llm_call", "llm",
                       ("provider" :> Str("openai")) @@ ("model" :> Str("gpt-4o"))
                       @@ ("input_tokens" :> (IF input_tokens = "None" THEN NoneValue ELSE Num(input_tokens)))
                       @@ ("output_tokens" :> NoneValue))
        /\ UNCHANGED <<rt_calls, rs_pc, tool_responses, mt_last>>
        /\ UNCHANGED notRunTrace

\* the pending request a tool_response is paired with: same tool name, not
\* later than the response, smallest time difference; "" when there is none
MatchingHash(pending, tool_name, timestamp) ==
    LET cands == {h \in DOMAIN pending :
                     pending[h].tool_name = tool_name /\ timestamp >= pending[h].timestamp}
    IN IF cands = {} THEN ""
       ELSE CHOOSE h \in cands :
                \A g \in cands : timestamp - pending[h].timestamp <= timestamp - pending[g].timestamp

\* pending_requests without the key h
Pop(pending, h) == [g \in DOMAIN pending \ {h} |-> pending[g]]

RECURSIVE BuildResponses(_, _, _)
\* ReplaySession.__post_init__: the loop over the events, with pending_requests
\* and tool_responses as they stand
BuildResponses(evs, pending, responses) ==
    IF evs = <<>> THEN responses
    ELSE LET event == Head(evs) IN
         IF event.event_type = "tool_request"
         THEN BuildResponses(Tail(evs),
                  Put(pending, event.data["args_hash"].text,
                      [tool_name |-> event.data["tool_name"].text,
                       args |-> event.data["args"].items,
                       timestamp |-> event.timestamp]),
                  responses)
         ELSE IF event.event_type = "tool_response"
         THEN LET tool_name == event.data["tool_name"].text
                  matching_hash == MatchingHash(pending, tool_name, event.timestamp)
              IN IF matching_hash # ""
                 THEN BuildResponses(Tail(evs), Pop(pending, matching_hash),
                          Put(responses, matching_hash,
                              [tool_name |-> tool_name,
                               args |-> pending[matching_hash].args,
                               result |-> event.data["result"].text,
                               error |-> event.data["error"].text]))
                 ELSE BuildResponses(Tail(evs), pending, responses)
         ELSE BuildResponses(Tail(evs), pending, responses)

\* ReplaySession(read_trace(trace_path)), as ReplayEngine.__init__ builds it
ReplaySessionInit ==
    /\ rs_pc = "recording"
    /\ rs_pc' = "replaying"
    /\ tool_responses' = BuildResponses(rt_file, <<>>, <<>>)
    /\ UNCHANGED <<rt_file, rt_calls, mt_last>>
    /\ UNCHANGED notRunTrace

\* MockTool(tool_name, replay_session)._run(**kwargs)
MockToolRun ==
    \E tool_name \in TracedTools, kwargs \in ArgDicts :
        LET args_hash == ArgsHash(kwargs) IN
        /\ rs_pc = "replaying"
        /\ mt_last' =
             IF args_hash \in DOMAIN tool_responses
             THEN IF tool_responses[args_hash].error # "None"
                  THEN [tool |-> tool_name, args |-> kwargs, outcome |-> "raised",
                        value |-> tool_responses[args_hash].error]
                  ELSE [tool |-> tool_name, args |-> kwargs, outcome |-> "returned",
                        value |-> IF tool_responses[args_hash].result # "None"
                                  THEN tool_responses[args_hash].result ELSE ""]
             ELSE [tool |-> tool_name, args |-> kwargs, outcome |-> "returned",
                   value |-> "[REPLAY: No recorded response for " \o tool_name \o "]"]
        /\ UNCHANGED <<rt_file, rt_calls, rs_pc, tool_responses>>
        /\ UNCHANGED notRunTrace

RunTraceNext ==
    \/ log_tool_request
    \/ log_tool_response
    \/ log_llm_call
    \/ ReplaySessionInit
    \/ MockToolRun

InitRunTrace == RunTraceIdle /\ PipeIdle /\ GraphIdle /\ SessIdle /\ RateIdle /\ StreamIdle /\ TraceIdle /\ CtxIdle /\ LlmIdle /\ RagIdle /\ DedupeIdle

SpecRunTrace == InitRunTrace /\ [][RunTraceNext]_vars

\* ------------------------------------------- RunTracer and replay: claims
\* the key patterns the redaction is said to cover
ClaimedPatterns == {"api_key", "token", "password", "authorization", "cookie", "secret"}

Sensitive(key) == PatternsIn(KeyLower(key)) \cap ClaimedPatterns # {}

\* C23: no event written to a journal holds the original value of a key whose
\* name contains api_key, token, password, authorization, cookie or secret:
\* every such value, at the top level of the event's data or inside a dict
\* logged with it, is the sentinel "[REDACTED]".
C23_SensitiveValuesRedacted ==
    \A i \in 1..Len(rt_file) : \A key \in DOMAIN rt_file[i].data :
        LET v == rt_file[i].data[key] IN
        /\ Sensitive(key) => v = Str("[REDACTED]")
        /\ v.kind = "dict" =>
              \A k \in DOMAIN v.items : Sensitive(k) => v.items[k] = "[REDACTED]"

\* the recorded calls of a tool with given arguments
RecordedCalls(tool, args) ==
    {k \in 1..MaxCalls : rt_calls[k].pc # "none" /\ rt_calls[k].tool = tool /\ rt_calls[k].args = args}

\* C27: a replayed tool call with the tool and the arguments of a recorded
\* request gets what the journal holds as the response of that same request: its
\* result returned or its error raised, also when several requests of the tool
\* were recorded before their responses.
C27_ReplayReturnsOwnResponse ==
    (rs_pc = "replaying" /\ mt_last.outcome # "none") =>
        \A k \in RecordedCalls(mt_last.tool, mt_last.args) :
            (rt_calls[k].pc = "responded" /\ RecordedCalls(mt_last.tool, mt_last.args) = {k}) =>
                IF rt_calls[k].error # "None"
                THEN mt_last.outcome = "raised" /\ mt_last.value = rt_calls[k].error
                ELSE mt_last.outcome = "returned" /\ mt_last.value = Truncated(rt_calls[k].result)

\* ======================================================================
\* LLM exchanges recorded by _traced_llm_invoke (layers/reasoning.py) and
\* replayed by ReplayLLM (llm/replay_llm.py) through TraceStore.get_llm_outputs
\* ======================================================================
\* str(messages) of exchange i, and the content of the LLM's response to it
PromptText(i) == "prompt " \o ToString(i)
OutputText(i) == "output " \o ToString(i)

\* current_span_id() inside the span of exchange i: the span's id, or None
\* when the span context is not valid
current_span_id(i) == IF l_spans THEN "span" \o ToString(i) ELSE "None"

\* the fields of a TraceEvent that get_llm_outputs reads; datetime.now() grows
\* with every event; the LLM events carry no node
LlmEvent(event_type, span_id, prompt, output) ==
    [event_type |-> event_type, timestamp |-> "t" \o ToString(Len(l_events) + 1),
     span_id |-> span_id, node |-> "None", prompt |-> prompt, output |-> output]

\* _traced_llm_invoke up to llm.invoke: trace_store.record_llm_prompt
LlmPrompt ==
    \E i \in 1..MaxExchanges :
        /\ l_pc = "recording"
        /\ l_exch[i] = "none"
        /\ \A j \in 1..(i - 1) : l_exch[j] # "none"
        /\ l_events' = Append(l_events, LlmEvent("llm_prompt", current_span_id(i), PromptText(i), "None"))
        /\ l_exch' = [l_exch EXCEPT ![i] = "prompted"]
        /\ UNCHANGED <<l_spans, l_pc, l_mode, recorded_outputs, output_index, l_last, l_pass, l_first, l_again>>
        /\ UNCHANGED notLlm

\* _traced_llm_invoke after llm.invoke returned: trace_store.record_llm_output
LlmOutput ==
    \E i \in 1..MaxExchanges :
        /\ l_pc = "recording"
        /\ l_exch[i] = "prompted"
        /\ l_events' = Append(l_events, LlmEvent("llm_output", current_span_id(i), "None", OutputText(i)))
        /\ l_exch' = [l_exch EXCEPT ![i] = "answered"]
        /\ UNCHANGED <<l_spans, l_pc, l_mode, recorded_outputs, output_index, l_last, l_pass, l_first, l_again>>
        /\ UNCHANGED notLlm

\* _traced_llm_invoke when llm.invoke raises: no output event
LlmRaises ==
    \E i \in 1..MaxExchanges :
        /\ l_pc = "recording"
        /\ l_exch[i] = "prompted"
        /\ l_exch' = [l_exch EXCEPT ![i] = "failed"]
        /\ UNCHANGED <<l_events, l_spans, l_pc, l_mode, recorded_outputs, output_index, l_last, l_pass, l_first, l_again>>
        /\ UNCHANGED notLlm

\* key = event.span_id or f"{event.node}_{event.timestamp}"
PairingKey(event) ==
    IF event.span_id \notin {"None", ""} THEN event.span_id
    ELSE event.node \o "_" \o event.timestamp

RECURSIVE LlmPairs(_, _)
\* TraceStore.get_llm_outputs: the loop over the events with pending_prompts as
\* it stands; the pairs it yields, in order
LlmPairs(evs, pending_prompts) ==
    IF evs = <<>> THEN <<>>
    ELSE LET event == Head(evs)
             key == PairingKey(event)
         IN IF event.event_type = "llm_prompt" /\ event.prompt \notin {"None", ""}
            THEN LlmPairs(Tail(evs), Put(pending_prompts, key, event.prompt))
            ELSE IF event.event_type = "llm_output" /\ event.output \notin {"None", ""}
                    /\ key \in DOMAIN pending_prompts
            THEN <<<<pending_prompts[key], event.output>>>>
                 \o LlmPairs(Tail(evs), [k \in DOMAIN pending_prompts \ {key} |-> pending_prompts[k]])
            ELSE LlmPairs(Tail(evs), pending_prompts)

get_llm_outputs(evs) == LlmPairs(evs, <<>>)

\* ReplayLLM(chat_id, fallback_llm, strict_mode): model_post_init loads the pairs
ReplayLLMInit ==
    \E strict_mode \in BOOLEAN, fallback_llm \in BOOLEAN :
        /\ l_pc = "recording"
        /\ l_pc' = "replaying"
        /\ l_mode' = [strict_mode |-> strict_mode, fallback_llm |-> fallback_llm]
        /\ recorded_outputs' = get_llm_outputs(l_events)
        /\ output_index' = 0
        /\ UNCHANGED <<l_events, l_exch, l_spans, l_last, l_pass, l_first, l_again>>
        /\ UNCHANGED notLlm

\* (mutant) exhaustion always ends in the sentinel text
NoRecordedOutputMut(mode) == [kind |-> "sentinel", text |-> "[REPLAY ERROR: No recorded output available]"]

\* _generate lines 80-91: no recorded output is left
NoRecordedOutput(mode) ==
    IF mode.strict_mode THEN [kind |-> "raised", text |-> "ValueError"]
    ELSE IF mode.fallback_llm THEN [kind |-> "fallback", text |-> "fallback answer"]
    ELSE [kind |-> "sentinel", text |-> "[REPLAY ERROR: No recorded output available]"]

\* (mutant) reset leaves the index where it is
ResetIndexMut(idx) == idx

\* reset line 196
ResetIndex(idx) == 0

\* every entry point (invoke, predict, stream, ...) ends in _generate, which asks
\* _find_matching_output for the next recorded output
Generate ==
    /\ l_pc = "replaying"
    /\ IF output_index >= Len(recorded_outputs)
       THEN /\ l_last' = NoRecordedOutput(l_mode)
            /\ UNCHANGED <<output_index, l_pass, l_first>>
       ELSE /\ l_last' = [kind |-> "recorded", text |-> recorded_outputs[output_index + 1][2]]
            /\ output_index' = output_index + 1
            /\ l_pass' = Append(l_pass, recorded_outputs[output_index + 1][2])
            /\ l_first' = IF l_again THEN l_first
                          ELSE Append(l_first, recorded_outputs[output_index + 1][2])
    /\ UNCHANGED <<l_events, l_exch, l_spans, l_pc, l_mode, recorded_outputs, l_again>>
    /\ UNCHANGED notLlm

\* ReplayLLM.reset
Reset ==
    /\ l_pc = "replaying"
    /\ output_index' = ResetIndex(output_index)
    /\ l_pass' = <<>>
    /\ l_again' = TRUE
    /\ l_last' = NoGenerate
    /\ UNCHANGED <<l_events, l_exch, l_spans, l_pc, l_mode, recorded_outputs, l_first>>
    /\ UNCHANGED notLlm

\* ReplayLLM.get_remaining_outputs
get_remaining_outputs == Len(recorded_outputs) - output_index

LlmNext ==
    \/ LlmPrompt
    \/ LlmOutput
    \/ LlmRaises
    \/ ReplayLLMInit
    \/ Generate
    \/ Reset

\* the recording starts with or without valid spans
LlmInit ==
    /\ l_events = <<>>
    /\ l_exch = [i \in 1..MaxExchanges |-> "none"]
    /\ l_spans \in BOOLEAN
    /\ l_pc = "recording"
    /\ l_mode = [strict_mode |-> FALSE, fallback_llm |-> FALSE]
    /\ recorded_outputs = <<>>
    /\ output_index = 0
    /\ l_last = NoGenerate
    /\ l_pass = <<>>
    /\ l_first = <<>>
    /\ l_again = FALSE

InitLlm == LlmInit /\ PipeIdle /\ GraphIdle /\ SessIdle /\ RateIdle /\ StreamIdle /\ TraceIdle /\ CtxIdle /\ RunTraceIdle /\ RagIdle /\ DedupeIdle

SpecLlm == InitLlm /\ [][LlmNext]_vars

\* ------------------------------------------------------ ReplayLLM: claims
\* the exchanges that were answered, in the order of their prompts (the prompt
\* of exchange i is recorded before the prompt of exchange i + 1)
AnsweredExchanges == SelectSeq([i \in 1..MaxExchanges |-> i], LAMBDA i : l_exch[i] = "answered")

\* C24: the k-th call of a ReplayLLM returns the output recorded for the k-th
\* recorded prompt that has an output, for every k up to the number of recorded
\* pairs.
C24_OutputsInPromptOrder ==
    l_pc = "replaying" =>
        \A k \in 1..Len(l_pass) :
            /\ k <= Len(AnsweredExchanges)
            /\ l_pass[k] = OutputText(AnsweredExchanges[k])

\* C35: every recorded prompt/output exchange yields exactly one (prompt,
\* output) pair from get_llm_outputs: an llm_prompt and an llm_output are
\* paired by equal span_id when a span_id is present, and otherwise by same
\* node and nearest timestamp.
C35_OnePairPerExchange ==
    l_pc = "replaying" =>
        /\ Len(recorded_outputs) = Len(AnsweredExchanges)
        /\ \A i \in 1..MaxExchanges :
              l_exch[i] = "answered" =>
                  Cardinality({k \in 1..Len(recorded_outputs) :
                                  recorded_outputs[k] = <<PromptText(i), OutputText(i)>>}) = 1

\* C25: a call made when no recorded output is left raises in strict mode,
\* returns the fallback model's result in lenient mode with a fallback, and
\* returns the text "[REPLAY ERROR: No recorded output available]" in lenient
\* mode without one.
C25_ExhaustedByMode ==
    [][(l_pc = "replaying" /\ l_last'.kind # "none" /\ output_index >= Len(recorded_outputs)) =>
          /\ output_index' = output_index
          /\ l_mode.strict_mode => l_last'.kind = "raised"
          /\ (~l_mode.strict_mode /\ l_mode.fallback_llm) =>
                l_last' = [kind |-> "fallback", text |-> "fallback answer"]
          /\ (~l_mode.strict_mode /\ ~l_mode.fallback_llm) =>
                l_last' = [kind |-> "sentinel", text |-> "[REPLAY ERROR: No recorded output available]"]]_vars

C25_Witness ==
    /\ l_pc = "replaying"
    /\ ~l_mode.strict_mode
    /\ l_mode.fallback_llm
    /\ l_last.kind = "fallback"
    /\ Len(l_pass) = 2

\* C26: after reset() a ReplayLLM returns the outputs of its first pass again,
\* in the same order, and get_remaining_outputs() is always the number of
\* recorded outputs less the number of recorded outputs returned since the last
\* reset.
C26_ResetRepeats ==
    l_pc = "replaying" =>
        /\ get_remaining_outputs = Len(recorded_outputs) - Len(l_pass)
        /\ l_again => \A i \in 1..Min(Len(l_pass), Len(l_first)) : l_pass[i] = l_first[i]

C26_Witness ==
    /\ l_pc = "replaying"
    /\ l_again
    /\ Len(l_first) = 2
    /\ Len(l_pass) = 2
    /\ get_remaining_outputs = 1

\* ======================================================================
\* Orchestrator.answer (Agentic-RAG-Pipeline/graph/orchestrator.py)
\* ======================================================================
\* Evidence(...).dict(): doc_id, chunk_id and meta["uri"] ("None": meta has no uri)
Evidence(doc_id, chunk_id, uri) == [doc_id |-> doc_id, chunk_id |-> chunk_id, uri |-> uri]

\* what the vector index can return for a query: chunks of a local document, and a
\* chunk of a crawled page whose meta carries the page's uri
VectorHits ==
    { <<>>,
      <<Evidence("kb1", "0", "None")>>,
      <<Evidence("kb2", "0", "http://a")>>,
      <<Evidence("kb1", "0", "None"), Evidence("kb1", "1", "None")>> }

\* what it returns for the short follow-up queries of the critic
FollowupHits ==
    { <<>>, <<Evidence("kb1", "0", "None")>>, <<Evidence("kb2", "0", "http://a")>> }

\* what WebRetriever.run builds from the search results: doc_id and meta.uri are
\* the url, chunk_id is "0"
WebHits == { <<>>, <<Evidence("http://a", "0", "http://a")>> }

\* the k a retrieval plan asks for (the model's JSON), and the default
PlannedKs == {0, 6, 7, 100}

\* (mutant) the planned k is used as it is
ClampKMut(k) == k

\* RetrievalPlannerAgent.run line 18: max(4, min(12, int(k)))
ClampK(k) == IF k < 4 THEN 4 ELSE IF k > 12 THEN 12 ELSE k

\* max(2, k // 2) and max(2, k - max(2, k // 2))
VectorK(k) == IF k \div 2 < 2 THEN 2 ELSE k \div 2
WebK(k) == IF k - VectorK(k) < 2 THEN 2 ELSE k - VectorK(k)

\* _dedupe_evidence line 19: (meta.uri or doc_id, chunk_id)
EvidenceKey(e) == <<IF e.uri \notin {"None", ""} THEN e.uri ELSE e.doc_id, e.chunk_id>>

RECURSIVE DedupeLoop(_, _, _, _)
\* the loop of _dedupe_evidence with seen and out as they stand
DedupeLoop(ev, max_len, seen, out) ==
    IF ev = <<>> THEN out
    ELSE LET e == Head(ev) IN
         IF EvidenceKey(e) \in seen THEN DedupeLoop(Tail(ev), max_len, seen, out)
         ELSE IF Len(out) + 1 >= max_len THEN Append(out, e)
         ELSE DedupeLoop(Tail(ev), max_len, seen \cup {EvidenceKey(e)}, Append(out, e))

\* (mutant) the last occurrence of an identity is kept, latest first
DedupeLastMut(ev, max_len) ==
    DedupeLoop([i \in 1..Len(ev) |-> ev[Len(ev) + 1 - i]], max_len, {}, <<>>)

\* (mutant) nothing is dropped
DedupeMut(ev, max_len) == ev

\* _dedupe_evidence(ev, max_len)
_dedupe_evidence(ev, max_len) == DedupeLoop(ev, max_len, {}, <<>>)

\* the caps of the three calls
LocalCap == 20
GlobalCap == 50
FollowupCap == 60

\* critic.get("followup_queries")[:4]
MaxFollowups == 4

\* how many follow-up queries the critic proposes
CriticFollowups == {0, 1, 5}

\* whether some evidence of hits has the identity of evidence already in ev
Repeats(ev, hits) ==
    \E i \in 1..Len(hits) :
        \/ \E j \in 1..Len(ev) : EvidenceKey(ev[j]) = EvidenceKey(hits[i])
        \/ \E j \in 1..(i - 1) : EvidenceKey(hits[j]) = EvidenceKey(hits[i])

\* (mutant) the critic is consulted whatever the writer said
NeedMoreMut(status) == FALSE

\* line 78: need_more = draft.get("status") != "ok"
need_more(status) == status # "ok"

\* answer lines 42-46: memory, intent and plan
AnswerStart ==
    \E n \in 1..MaxSubtasks :
        /\ o_pc = "idle"
        /\ o_pc' = "plan"
        /\ o_todo' = n
        /\ UNCHANGED <<o_web, o_first, o_planned, o_queries, o_k, o_local, all_evidence, o_draft, o_writers, o_critics,
                       o_retrieved, o_searches, o_dup, citations>>
        /\ UNCHANGED notRag

\* lines 51-55: the retrieval plan of the next subtask
SubtaskStart ==
    \E k \in PlannedKs, nq \in 1..MaxQueries :
        /\ o_pc = "plan"
        /\ o_todo > 0
        /\ o_planned' = k
        /\ o_k' = ClampK(k)
        /\ o_queries' = nq
        /\ o_local' = <<>>
        /\ o_pc' = "queries"
        /\ UNCHANGED <<o_web, o_first, o_todo, all_evidence, o_draft, o_writers, o_critics,
                       o_retrieved, o_searches, o_dup, citations>>
        /\ UNCHANGED notRag

\* lines 56-64: one query of the subtask, vector search then web search
Query ==
    \E v \in VectorHits, w \in WebHits :
        LET hits == IF o_web THEN v \o w ELSE v IN
        /\ o_pc = "queries"
        /\ o_queries > 0
        /\ o_local' = o_local \o hits
        /\ o_searches' = [vector |-> VectorK(o_k), web |-> IF o_web THEN WebK(o_k) ELSE o_searches.web]
        /\ o_dup' = (o_dup \/ Repeats(all_evidence \o o_local, hits))
        /\ o_queries' = o_queries - 1
        /\ UNCHANGED <<o_web, o_first, o_planned, o_pc, o_todo, o_k, all_evidence, o_draft, o_writers, o_critics,
                       o_retrieved, citations>>
        /\ UNCHANGED notRag

\* lines 66-68: the subtask's evidence deduplicated and added; local is not read again
SubtaskEnd ==
    /\ o_pc = "queries"
    /\ o_queries = 0
    /\ all_evidence' = all_evidence \o _dedupe_evidence(o_local, LocalCap)
    /\ o_todo' = o_todo - 1
    /\ o_local' = <<>>
    /\ o_pc' = "plan"
    /\ UNCHANGED <<o_web, o_first, o_planned, o_queries, o_k, o_draft, o_writers, o_critics,
                   o_retrieved, o_searches, o_dup, citations>>
    /\ UNCHANGED notRag

\* lines 70-78: the global deduplication and the first writer pass
Writer ==
    \E status \in {"ok", "needs_more"} :
        /\ o_pc = "plan"
        /\ o_todo = 0
        /\ all_evidence' = _dedupe_evidence(all_evidence, GlobalCap)
        /\ o_draft' = status
        /\ o_first' = status
        /\ o_writers' = o_writers + 1
        /\ o_pc' = IF need_more(status) THEN "guard" ELSE "critic"
        /\ UNCHANGED <<o_web, o_planned, o_todo, o_queries, o_k, o_local, o_critics, o_retrieved,
                       o_searches, o_dup, citations>>
        /\ UNCHANGED notRag

\* lines 79-84: the critic, consulted when the writer was content
Critic ==
    \E ok \in BOOLEAN, n \in CriticFollowups :
        /\ o_pc = "critic"
        /\ o_critics' = o_critics + 1
        /\ IF ~ok /\ n > 0
           THEN /\ o_queries' = IF n > MaxFollowups THEN MaxFollowups ELSE n
                /\ o_pc' = "followups"
           ELSE /\ o_queries' = o_queries
                /\ o_pc' = "guard"
        /\ UNCHANGED <<o_web, o_first, o_planned, o_todo, o_k, o_local, all_evidence, o_draft, o_writers,
                       o_retrieved, o_searches, o_dup, citations>>
        /\ UNCHANGED notRag

\* lines 85-90: one follow-up query, with k = 4 for both searches
Followup ==
    \E v \in FollowupHits, w \in WebHits :
        LET hits == IF o_web THEN v \o w ELSE v IN
        /\ o_pc = "followups"
        /\ o_queries > 0
        /\ all_evidence' = all_evidence \o hits
        /\ o_searches' = [vector |-> 4, web |-> IF o_web THEN 4 ELSE o_searches.web]
        /\ o_dup' = (o_dup \/ Repeats(all_evidence, hits))
        /\ o_retrieved' = o_retrieved + 1
        /\ o_queries' = o_queries - 1
        /\ UNCHANGED <<o_web, o_first, o_planned, o_pc, o_todo, o_k, o_local, o_draft, o_writers, o_critics, citations>>
        /\ UNCHANGED notRag

\* lines 91-93: the enlarged evidence deduplicated, and the second writer pass
Rewrite ==
    \E status \in {"ok", "needs_more"} :
        /\ o_pc = "followups"
        /\ o_queries = 0
        /\ all_evidence' = _dedupe_evidence(all_evidence, FollowupCap)
        /\ o_draft' = status
        /\ o_writers' = o_writers + 1
        /\ o_pc' = "guard"
        /\ UNCHANGED <<o_web, o_first, o_planned, o_todo, o_queries, o_k, o_local, o_critics, o_retrieved,
                       o_searches, o_dup, citations>>
        /\ UNCHANGED notRag

\* lines 95-99: the guard, the memory and the returned dict
Return ==
    /\ o_pc = "guard"
    /\ citations' = all_evidence
    /\ o_pc' = "returned"
    /\ UNCHANGED <<o_web, o_first, o_planned, o_todo, o_queries, o_k, o_local, all_evidence, o_draft, o_writers,
                   o_critics, o_retrieved, o_searches, o_dup>>
    /\ UNCHANGED notRag

RagNext ==
    \/ AnswerStart
    \/ SubtaskStart
    \/ Query
    \/ SubtaskEnd
    \/ Writer
    \/ Critic
    \/ Followup
    \/ Rewrite
    \/ Return

\* Orchestrator(vector_idx, web_tool, memory), with or without a web tool
RagInit ==
    /\ o_web \in BOOLEAN
    /\ o_pc = "idle"
    /\ o_todo = 0
    /\ o_queries = 0
    /\ o_planned = 0
    /\ o_k = 0
    /\ o_local = <<>>
    /\ all_evidence = <<>>
    /\ o_draft = "None"
    /\ o_first = "None"
    /\ o_writers = 0
    /\ o_critics = 0
    /\ o_retrieved = 0
    /\ o_searches = [vector |-> 0, web |-> 0]
    /\ o_dup = FALSE
    /\ citations = <<>>

InitRag == RagInit /\ PipeIdle /\ GraphIdle /\ SessIdle /\ RateIdle /\ StreamIdle /\ TraceIdle /\ CtxIdle /\ RunTraceIdle /\ LlmIdle /\ DedupeIdle

SpecRag == InitRag /\ [][RagNext]_vars

\* --------------------------------------------------- Orchestrator: claims
\* C30: on every path through Orchestrator.answer, with or without a critic
\* follow-up, no two entries of the returned citations have the same identity:
\* meta.uri, or doc_id when there is no uri, together with chunk_id.
C30_CitationsDistinct ==
    o_pc = "returned" =>
        \A i, j \in 1..Len(citations) :
            (/\ (IF citations[i].uri # "None" THEN citations[i].uri ELSE citations[i].doc_id)
                  = (IF citations[j].uri # "None" THEN citations[j].uri ELSE citations[j].doc_id)
             /\ citations[i].chunk_id = citations[j].chunk_id) => i = j

C30_Witness ==
    /\ o_pc = "returned"
    /\ o_writers = 2
    /\ o_retrieved >= 1
    /\ o_dup
    /\ Len(citations) = 3

C32_NeedsMoreRetrievesAndRewrites ==
    (o_pc = "returned" /\ o_first = "needs_more") =>
        /\ o_retrieved >= 1
        /\ o_writers = 2

\* C33: for every retrieval plan the k used by the orchestrator lies in [4, 12]
\* (a planned k of 0 becomes 4, a planned k of 100 becomes 12), and each query
\* of the plan searches the vector index for max(2, k/2) results and the web
\* for max(2, k - k/2) results.
C33_KClampedAndSplit ==
    /\ [](o_pc = "queries" =>
            /\ o_k \in 4..12
            /\ o_planned = 0 => o_k = 4
            /\ o_planned = 100 => o_k = 12)
    /\ [][(o_pc = "queries" /\ o_queries' < o_queries) =>
            /\ o_searches'.vector = (IF o_k \div 2 > 2 THEN o_k \div 2 ELSE 2)
            /\ o_web => o_searches'.web = (IF o_k - o_k \div 2 > 2 THEN o_k - o_k \div 2 ELSE 2)]_vars

C33_Witness ==
    /\ o_pc = "queries"
    /\ o_web
    /\ o_planned = 100
    /\ o_k = 12
    /\ o_searches = [vector |-> 6, web |-> 6]
    /\ o_todo = 1

\* ======================================================================
\* _dedupe_evidence as a function of its arguments
\* (Agentic-RAG-Pipeline/graph/orchestrator.py)
\* ======================================================================
\* the entries a list can hold: two chunks of a local document, a chunk of a
\* crawled page in the index and the same page as the web search returns it
\* (one identity, two entries)
EvidenceItems ==
    { Evidence("kb1", "0", "None"), Evidence("kb1", "1", "None"),
      Evidence("kb2", "0", "http://a"), Evidence("http://a", "0", "http://a") }

\* lists of up to MaxEvidence entries
EvidenceLists == UNION { [1..n -> EvidenceItems] : n \in 0..MaxEvidence }

\* the caps: the code passes 20, 50 and 60 (default 40); the lists here are
\* short, so the caps are short enough to cut them
DedupeCaps == 1..MaxEvidence

\* a caller passes a list and a cap
DedupeFirst ==
    /\ d_pc = "input"
    /\ d_out' = _dedupe_evidence(d_ev, d_max_len)
    /\ d_pc' = "once"
    /\ UNCHANGED <<d_ev, d_max_len, d_again>>
    /\ UNCHANGED notDedupe

\* the returned list is passed again with the same cap
DedupeSecond ==
    /\ d_pc = "once"
    /\ d_again' = _dedupe_evidence(d_out, d_max_len)
    /\ d_pc' = "twice"
    /\ UNCHANGED <<d_ev, d_max_len, d_out>>
    /\ UNCHANGED notDedupe

DedupeNext ==
    \/ DedupeFirst
    \/ DedupeSecond

DedupeInit ==
    /\ d_ev \in EvidenceLists
    /\ d_max_len \in DedupeCaps
    /\ d_pc = "input"
    /\ d_out = <<>>
    /\ d_again = <<>>

InitDedupe == DedupeInit /\ PipeIdle /\ GraphIdle /\ SessIdle /\ RateIdle /\ StreamIdle /\ TraceIdle /\ CtxIdle /\ RunTraceIdle /\ LlmIdle /\ RagIdle

SpecDedupe == InitDedupe /\ [][DedupeNext]_vars

\* ------------------------------------------------ _dedupe_evidence: claims
\* the identity of an entry: meta.uri, or doc_id when there is no uri, and chunk_id
Identity(e) == <<IF e.uri # "None" THEN e.uri ELSE e.doc_id, e.chunk_id>>

\* C34: evidence deduplication is stable and idempotent: for each identity it
\* keeps the first occurrence in input order, it preserves the relative order
\* of the kept entries, it never returns more entries than the cap, and applying
\* it again to its own output with the same cap returns that output unchanged.
C34_DedupeStableIdempotent ==
    /\ d_pc \in {"once", "twice"} =>
        /\ Len(d_out) <= d_max_len
        /\ \E f \in [1..Len(d_out) -> 1..Len(d_ev)] :
              /\ \A i \in 1..Len(d_out) :
                    /\ d_out[i] = d_ev[f[i]]
                    /\ \A j \in 1..(f[i] - 1) : Identity(d_ev[j]) # Identity(d_ev[f[i]])
              /\ \A i, j \in 1..Len(d_out) : i < j => f[i] < f[j]
        /\ Len(d_out) < d_max_len =>
              \A j \in 1..Len(d_ev) : \E i \in 1..Len(d_out) : Identity(d_out[i]) = Identity(d_ev[j])
    /\ d_pc = "twice" => d_again = d_out

C34_Witness ==
    /\ d_pc = "twice"
    /\ d_max_len = 2
    /\ d_ev = <<Evidence("kb2", "0", "http://a"), Evidence("http://a", "0", "http://a"),
                Evidence("kb1", "1", "None")>>
    /\ d_out = <<Evidence("kb2", "0", "http://a"), Evidence("kb1", "1", "None")>>
    /\ d_again = d_out

====
